---- MODULE Spec2Model ----
(***************************************************************************)
(* A model of the whispr dispatch engine (src/whispr.py): the per-user     *)
(* single-slot callback chain, the command router, the stop/start          *)
(* compliance gate, onboarding inside send, and the admin proxy session.   *)
(*                                                                         *)
(* Representation.                                                         *)
(*  - A Python str is a sequence of string fragments whose concatenation   *)
(*    is the str.  Everything a user types (message texts, names,          *)
(*    addresses) is fragmented per character, so that split, startswith,   *)
(*    endswith, lower and the substring test are computed as Python        *)
(*    computes them.  The literal parts of the bot's own replies are one   *)
(*    fragment each.                                                       *)
(*  - Optional[str] is a sequence of length 0 (None) or 1.                 *)
(*  - A callable stored in user_callbacks is a sequence of entries: the    *)
(*    first entry is the innermost previous_callback, every further entry  *)
(*    is one callback_bundle level holding the callback and the prompt it  *)
(*    captured.  A bundle's previous_callback is always what was popped    *)
(*    from the slot and its callback is never a bundle, so the closures    *)
(*    the code can build are exactly these left-nested chains.             *)
(*  - Each method is an operator from a working state w to a working       *)
(*    state; w.exc names the exception in flight ("" for none) and w.ret   *)
(*    holds the value returned.  A statement that follows a call which     *)
(*    has raised is not executed: the operators that stand for such        *)
(*    statements leave a working state with an exception in flight alone.  *)
(*  - Group relay, SMS quoting, attachments, /mkgroup and /debug are not   *)
(*    part of the input alphabet.                                          *)
(***************************************************************************)
EXTENDS Integers, Sequences, FiniteSets, TLC

VARIABLES
    user_names,         \* bidict address -> display name
    followers,          \* defaultdict(list), as key/list pairs in insertion order
    blocked,            \* set of addresses
    user_callbacks,     \* address -> callback chain
    received_messages,  \* keys (ts, sender) of the received ledger
    sent_messages,      \* (ts, recipient) -> index into posts
    posts,              \* the Message objects stored in sent_messages
    now,                \* the clock, in seconds
    nreg,               \* number of register_callback calls so far
    nsess,              \* number of do_proxy closures created so far
    regUser,            \* history: regUser[i] is the address of registration i
    invokedHist,        \* history: registrations in the order they were invoked
    prompted,           \* history: registrations whose prompt has been issued
    op,                 \* the last operation and its input
    outbox,             \* transport writes of the last operation, in order
    raised,             \* exception the last operation ended with ("" for none)
    trace,              \* handlers the last operation ran, in order
    invoked,            \* registrations the last operation invoked, in order
    nevents,            \* number of messages and send requests so far
    nreact              \* number of reactions so far

vars == <<user_names, followers, blocked, user_callbacks, received_messages,
          sent_messages, posts, now, nreg, nsess, regUser, invokedHist,
          prompted, op, outbox, raised, trace, invoked, nevents, nreact>>

-----------------------------------------------------------------------------
\* Bounds of the model.

MaxEvents == 4

\* reactions a behaviour may hold
MaxReactions == 6

-----------------------------------------------------------------------------
\* Python values and str operations.

None == <<>>

Some(x) == <<x>>

\* truthiness of an Optional[str]
Truthy(o) == o # None /\ o[1] # <<>>

\* str(x) of an Optional[str], as an f-string formats it
Fmt(o) == IF o = None THEN <<"None">> ELSE o[1]

UpperChars == <<"A","B","C","D","E","F","G","H","I","J","K","L","M",
                "N","O","P","Q","R","S","T","U","V","W","X","Y","Z">>

LowerChars == <<"a","b","c","d","e","f","g","h","i","j","k","l","m",
                "n","o","p","q","r","s","t","u","v","w","x","y","z">>

lower(s) ==
    [i \in 1..Len(s) |->
        IF \E j \in 1..26 : UpperChars[j] = s[i]
        THEN LowerChars[CHOOSE j \in 1..26 : UpperChars[j] = s[i]]
        ELSE s[i]]

startswith(s, p) == Len(p) <= Len(s) /\ SubSeq(s, 1, Len(p)) = p

endswith(s, p) == Len(p) <= Len(s) /\ SubSeq(s, Len(s) - Len(p) + 1, Len(s)) = p

\* Python's `r in s` for two strs
contains(s, r) == \E i \in 0..(Len(s) - Len(r)) : SubSeq(s, i + 1, i + Len(r)) = r

\* index of the first sep in s, 0 when there is none
Find(s, sep) ==
    IF \E i \in 1..Len(s) : s[i] = sep
    THEN CHOOSE i \in 1..Len(s) : s[i] = sep /\ \A j \in 1..(i - 1) : s[j] # sep
    ELSE 0

RECURSIVE split(_, _)
split(s, sep) ==
    IF Find(s, sep) = 0 THEN <<s>>
    ELSE <<SubSeq(s, 1, Find(s, sep) - 1)>>
            \o split(SubSeq(s, Find(s, sep) + 1, Len(s)), sep)

\* s.split(sep, 1)
split1(s, sep) ==
    IF Find(s, sep) = 0 THEN <<s>>
    ELSE <<SubSeq(s, 1, Find(s, sep) - 1), SubSeq(s, Find(s, sep) + 1, Len(s))>>

RECURSIVE join(_, _)
join(sep, toks) ==
    IF toks = <<>> THEN <<>>
    ELSE IF Len(toks) = 1 THEN toks[1]
    ELSE toks[1] \o <<sep>> \o join(sep, Tail(toks))

-----------------------------------------------------------------------------
\* Addresses, names and message texts of the input alphabet.

A1 == <<"+", "1">>
A2 == <<"+", "2">>
A3 == <<"+", "3">>

alice == <<"a", "l">>
bob == <<"b", "o">>

proxiedSuffix == <<"p", "r", "o", "x", "i", "e", "d">>

\* the numbers phonenumbers accepts as valid, in E164 form
ValidNumbers == {A1, A2, A3}

\* the admins file
admins == {A1}

tSTOP == <<"S", "T", "O", "P">>
tStart == <<"s", "t", "a", "r", "t">>
tHi == <<"h", "i">>
tY == <<"y">>
tProxy == <<"/", "p", "r", "o", "x", "y">>
tInvite3 == <<"/", "i", "n", "v", "i", "t", "e", " ", "+", "3">>
tInviteAl == <<"/", "i", "n", "v", "i", "t", "e", " ", "a", "l">>
tInviteBo == <<"/", "i", "n", "v", "i", "t", "e", " ", "b", "o">>
tFollow3 == <<"/", "f", "o", "l", "l", "o", "w", " ", "+", "3">>
tName3 == <<"/", "n", "a", "m", "e", " ", "+", "3">>
tEchoStop == <<"/", "e", "c", "h", "o", " ", "s", "t", "o", "p">>
tRelay3 == <<"+", "3", ":", "h", "i">>
tRelay2 == <<"+", "2", ":", "h", "i">>
tRelay1 == <<"+", "1", ":", "h", "i">>
tHelp == <<"/", "h", "e", "l", "p">>
tNameAl == <<"/", "n", "a", "m", "e", " ", "a", "l">>
tInvite1 == <<"/", "i", "n", "v", "i", "t", "e", " ", "+", "1">>
tSoftblockAl == <<"/", "s", "o", "f", "t", "b", "l", "o", "c", "k", " ", "a", "l">>
tFollow1 == <<"/", "f", "o", "l", "l", "o", "w", " ", "+", "1">>
tFollowBo == <<"/", "f", "o", "l", "l", "o", "w", " ", "b", "o">>
tUnfollow3 == <<"/", "u", "n", "f", "o", "l", "l", "o", "w", " ", "+", "3">>
tName == <<"/", "n", "a", "m", "e">>
tNameProxied == <<"/", "n", "a", "m", "e", " ", "p", "r", "o", "x", "i", "e", "d">>
tHello == <<"h", "e", "l", "l", "o">>
tSlash == <<"/">>
tUnfollowAl == <<"/", "u", "n", "f", "o", "l", "l", "o", "w", " ", "a", "l">>
tSoftblockBo == <<"/", "s", "o", "f", "t", "b", "l", "o", "c", "k", " ", "b", "o">>
tES == <<"E", "S">>
tN == <<"N">>
tEmpty == <<>>
tInvite == <<"/", "i", "n", "v", "i", "t", "e">>
tFollowStop == <<"/", "f", "o", "l", "l", "o", "w", " ", "s", "t", "o", "p">>
tFollowZz == <<"/", "f", "o", "l", "l", "o", "w", " ", "z", "z">>
tUnfollowZz == <<"/", "u", "n", "f", "o", "l", "l", "o", "w", " ", "z", "z">>
tSoftblockZz == <<"/", "s", "o", "f", "t", "b", "l", "o", "c", "k", " ", "z", "z">>
tFoo == <<"/", "f", "o", "o">>
tFooStop == <<"/", "f", "o", "o", " ", "s", "t", "o", "p">>
tSlashStop == <<"/", "s", "t", "o", "p">>
tHiAl == <<"h", "i", " ", "a", "l">>
tForceinviteBo ==
    <<"/", "f", "o", "r", "c", "e", "i", "n", "v", "i", "t", "e", " ", "b", "o">>

\* the bot's literal replies
Welcome ==
    <<"welcome to whispr, a social media that runs on signal. text STOP or BLOCK to not receive messages. type /help to view available commands.">>

NamePrompt == <<"what would you like to be called?">>

StopConfirmation == <<"i'll stop messaging you. text START or UNBLOCK to resume texts">>

WelcomeBack == <<"welcome back">>

WerentBlocked == <<"you weren't blocked">>

Oopsie ==
    <<"OOPSIE WOOPSIE!! Uwu We made a fucky wucky!!A wittle fucko boingo! The code monkeys at our headquarters are working VEWY HAWD to fix this!">>

AdminOnly == <<"you must be an admin to use this command">>

-----------------------------------------------------------------------------
\* Dictionaries.

Put(f, k, v) == [a \in (DOMAIN f) \cup {k} |-> IF a = k THEN v ELSE f[a]]

Del(f, k) == [a \in (DOMAIN f) \ {k} |-> f[a]]

Raise(w, e) == [w EXCEPT !.exc = e, !.ret = None]

\* return v, unless an exception is already in flight
Return(w, v) == IF w.exc # "" THEN w ELSE [w EXCEPT !.ret = v]

\* a faulty bidict: the item assignment of a plain dict
dict_setitem(w, k, v) == [w EXCEPT !.user_names = Put(@, k, v)]

\* bidict.__setitem__: a value bound to another key raises, nothing is changed
bidict_setitem(w, k, v) ==
    IF \E k2 \in DOMAIN w.user_names : k2 # k /\ w.user_names[k2] = v
    THEN Raise(w, "ValueDuplicationError")
    ELSE [w EXCEPT !.user_names = Put(@, k, v)]

\* name in user_names.inverse
in_inverse(w, name) == \E k \in DOMAIN w.user_names : w.user_names[k] = name

\* user_names.inverse[name]
inverse(w, name) == CHOOSE k \in DOMAIN w.user_names : w.user_names[k] = name

\* k in followers
has_key(f, k) == \E i \in 1..Len(f) : f[i].k = k

\* the list followers[k] holds (the empty list of a missing key)
followers_of(f, k) ==
    IF has_key(f, k) THEN f[CHOOSE i \in 1..Len(f) : f[i].k = k].v ELSE <<>>

\* defaultdict.__getitem__: reading a missing key inserts it with an empty list
followers_getitem(w, k) ==
    IF has_key(w.followers, k) THEN w
    ELSE [w EXCEPT !.followers = Append(@, [k |-> k, v |-> <<>>])]

\* followers[k] = l for a key that is present
followers_set(w, k, l) ==
    [w EXCEPT !.followers =
        [i \in 1..Len(@) |-> IF @[i].k = k THEN [k |-> k, v |-> l] ELSE @[i]]]

\* followers[k].append(x), unless an exception is in flight
followers_append(w, k, x) ==
    IF w.exc # "" THEN w
    ELSE followers_set(w, k, Append(followers_of(w.followers, k), x))

\* x in list
in_list(l, x) == \E i \in 1..Len(l) : l[i] = x

\* list.remove(x): the first occurrence
list_remove(l, x) ==
    LET i == CHOOSE j \in 1..Len(l) : l[j] = x /\ \A h \in 1..(j - 1) : l[h] # x
    IN SubSeq(l, 1, i - 1) \o SubSeq(l, i + 1, Len(l))

-----------------------------------------------------------------------------
\* Callables stored in user_callbacks.

do_name_cb == [kind |-> "do_name", who |-> <<>>, name |-> <<>>, sid |-> 0]

invite_cb(inviter, inviter_name) ==
    [kind |-> "response_callback", who |-> inviter, name |-> inviter_name, sid |-> 0]

proxy_response_cb(proxied, proxied_name, sid) ==
    [kind |-> "proxy_response_callback", who |-> proxied, name |-> proxied_name,
     sid |-> sid]

proxy_cb(proxied, proxied_name, sid) ==
    [kind |-> "proxy_callback", who |-> proxied, name |-> proxied_name, sid |-> sid]

\* the slot holds exactly this callable (Python's `is`)
slot_is(w, user, cb) ==
    /\ user \in DOMAIN w.user_callbacks
    /\ Len(w.user_callbacks[user]) = 1
    /\ w.user_callbacks[user][1].cb = cb

\* the registrations a chain holds
RegsOf(chain) == {chain[i].reg : i \in 1..Len(chain)}

-----------------------------------------------------------------------------
\* Message.__init__

\* a faulty Message: the command is parsed even when a callback is outstanding
Message_always_parsing(w, sender, text, ts) ==
    LET toks == split(text, " ")
        isCmd == text # <<>> /\ startswith(text, <<"/">>)
    IN [sender |-> sender,
        sender_name |-> IF sender \in DOMAIN w.user_names
                        THEN w.user_names[sender] ELSE sender,
        ts |-> ts,
        full_text |-> text,
        text |-> IF isCmd THEN join(" ", Tail(toks)) ELSE text,
        command |-> IF isCmd THEN Some(Tail(toks[1])) ELSE None,
        arg1 |-> IF isCmd /\ Len(toks) > 1 THEN Some(toks[2]) ELSE None]

Message(w, sender, text, ts) ==
    LET toks == split(text, " ")
        inCb == sender \in DOMAIN w.user_callbacks
        isCmd == ~inCb /\ text # <<>> /\ startswith(text, <<"/">>)
    IN [sender |-> sender,
        sender_name |-> IF sender \in DOMAIN w.user_names
                        THEN w.user_names[sender] ELSE sender,
        ts |-> ts,
        full_text |-> text,
        text |-> IF isCmd THEN join(" ", Tail(toks)) ELSE text,
        command |-> IF isCmd THEN Some(Tail(toks[1])) ELSE None,
        arg1 |-> IF inCb THEN Some(toks[1])
                 ELSE IF isCmd /\ Len(toks) > 1 THEN Some(toks[2])
                 ELSE None]

-----------------------------------------------------------------------------
\* send and register_callback

\* the write of a "send" command; force records the flag of the send that wrote it
signal_line(w, recipient, message, force) ==
    [w EXCEPT !.outbox = Append(@, [recipient |-> recipient, message |-> message,
                                    force |-> force])]

\* self.user_callbacks[user] = callback, unless an exception is in flight
set_callback(w, user, callback, reg) ==
    IF w.exc # "" THEN w
    ELSE [w EXCEPT !.user_callbacks =
             Put(@, user, <<[cb |-> callback, prompt |-> <<>>, reg |-> reg]>>)]

RECURSIVE send(_, _, _, _)
RECURSIVE register_callback(_, _, _, _)
RECURSIVE call(_, _, _, _)
RECURSIVE receive(_, _)

\* a faulty send: the blocklist is not consulted
send_ignoring_blocklist(w, recipient, message, force) ==
    IF w.exc # "" THEN w
    ELSE IF force \/ message # <<>>
    THEN IF ~force /\ recipient \notin DOMAIN w.user_names
         THEN LET w1 == bidict_setitem(w, recipient, recipient)
                  w2 == send(w1, recipient, Welcome, FALSE)
                  w3 == send(w2, recipient, message, FALSE)
              IN register_callback(w3, recipient, NamePrompt, do_name_cb)
         ELSE signal_line(w, recipient, message, force)
    ELSE w

\* a faulty send: onboarding does not ask for a name
send_without_name_prompt(w, recipient, message, force) ==
    IF w.exc # "" THEN w
    ELSE IF force \/ (recipient \notin w.blocked /\ message # <<>>)
    THEN IF ~force /\ recipient \notin DOMAIN w.user_names
         THEN LET w1 == bidict_setitem(w, recipient, recipient)
                  w2 == send(w1, recipient, Welcome, FALSE)
              IN send(w2, recipient, message, FALSE)
         ELSE signal_line(w, recipient, message, force)
    ELSE w

\* a faulty send: onboarding writes the welcome notice a second time
send_welcoming_twice(w, recipient, message, force) ==
    IF w.exc # "" THEN w
    ELSE IF force \/ (recipient \notin w.blocked /\ message # <<>>)
    THEN IF ~force /\ recipient \notin DOMAIN w.user_names
         THEN LET w1 == bidict_setitem(w, recipient, recipient)
                  w2 == send(send(w1, recipient, Welcome, FALSE), recipient, Welcome,
                             FALSE)
                  w3 == send(w2, recipient, message, FALSE)
              IN register_callback(w3, recipient, NamePrompt, do_name_cb)
         ELSE signal_line(w, recipient, message, force)
    ELSE w

\* a faulty send: a forced send to a never-seen recipient onboards it
send_onboarding_forced(w, recipient, message, force) ==
    IF w.exc # "" THEN w
    ELSE IF force \/ (recipient \notin w.blocked /\ message # <<>>)
    THEN IF recipient \notin DOMAIN w.user_names
         THEN LET w1 == bidict_setitem(w, recipient, recipient)
                  w2 == send(w1, recipient, Welcome, FALSE)
                  w3 == send(w2, recipient, message, FALSE)
              IN register_callback(w3, recipient, NamePrompt, do_name_cb)
         ELSE signal_line(w, recipient, message, force)
    ELSE w

\* a faulty send: a never-seen recipient is written to like a known one
send_without_onboarding(w, recipient, message, force) ==
    IF w.exc # "" THEN w
    ELSE IF force \/ (recipient \notin w.blocked /\ message # <<>>)
    THEN signal_line(w, recipient, message, force)
    ELSE w

send(w, recipient, message, force) ==
    IF w.exc # "" THEN w
    ELSE IF force \/ (recipient \notin w.blocked /\ message # <<>>)
    THEN IF ~force /\ recipient \notin DOMAIN w.user_names
         THEN LET w1 == bidict_setitem(w, recipient, recipient)
                  w2 == send(w1, recipient, Welcome, FALSE)
                  w3 == send(w2, recipient, message, FALSE)
              IN register_callback(w3, recipient, NamePrompt, do_name_cb)
         ELSE signal_line(w, recipient, message, force)
    ELSE w

register_callback(w, user, prompt, callback) ==
    IF w.exc # "" THEN w
    ELSE IF user = <<>> THEN Raise(w, "AssertionError")
    ELSE LET reg == w.nreg + 1
             w0 == [w EXCEPT !.nreg = reg, !.regUser = Append(@, user)]
         IN IF user \in DOMAIN w0.user_callbacks
            THEN [w0 EXCEPT !.user_callbacks[user] =
                     Append(@, [cb |-> callback, prompt |-> prompt, reg |-> reg])]
            ELSE set_callback(send([w0 EXCEPT !.prompted = @ \cup {reg}],
                                   user, prompt, FALSE),
                              user, callback, reg)

-----------------------------------------------------------------------------
\* Command names and reply texts.

cDefault == <<"d", "e", "f", "a", "u", "l", "t">>
cEcho == <<"e", "c", "h", "o">>
cFollow == <<"f", "o", "l", "l", "o", "w">>
cFollowers == <<"f", "o", "l", "l", "o", "w", "e", "r", "s">>
cFollowing == <<"f", "o", "l", "l", "o", "w", "i", "n", "g">>
cForceinvite == <<"f", "o", "r", "c", "e", "i", "n", "v", "i", "t", "e">>
cHelp == <<"h", "e", "l", "p">>
cInvite == <<"i", "n", "v", "i", "t", "e">>
cName == <<"n", "a", "m", "e">>
cProxy == <<"p", "r", "o", "x", "y">>
cSoftblock == <<"s", "o", "f", "t", "b", "l", "o", "c", "k">>
cUnfollow == <<"u", "n", "f", "o", "l", "l", "o", "w">>
cMkgroup == <<"m", "k", "g", "r", "o", "u", "p">>
cDebug == <<"d", "e", "b", "u", "g">>

\* hasattr(self, "do_" + name)
HandlerNames ==
    {cDefault, cEcho, cFollow, cFollowers, cFollowing, cForceinvite, cHelp,
     cInvite, cName, cProxy, cSoftblock, cUnfollow, cMkgroup, cDebug}

\* handlers without a docstring
Undocumented == {cForceinvite, cDebug}

Doc(c) ==
    CASE c = cDefault -> <<"send a message to your followers">>
      [] c = cEcho -> <<"repeats what you say">>
      [] c = cFollow -> <<"/follow [number or name]. follow someone">>
      [] c = cFollowers -> <<"/followers. list your followers">>
      [] c = cFollowing -> <<"/following. list who you follow">>
      [] c = cHelp ->
            <<"/help [command]. see the documentation for command, or all commands">>
      [] c = cInvite -> <<"/invite [number or name]. invite someone to follow you">>
      [] c = cName -> <<"/name [name]. set or change your name">>
      [] c = cProxy ->
            <<"toggle proxy mode. write number:message pairs and whispr will send them\nfor you. you'll receive messages from those number(s) until you leave\nproxy mode">>
      [] c = cSoftblock ->
            <<"/softblock [number or name]. removes someone from your followers">>
      [] c = cUnfollow -> <<"/unfollow [target_number or name]. unfollow someone">>
      [] c = cMkgroup -> <<"make a group to capture proxied DMs">>

DocumentedCommands ==
    <<"documented commands: default, echo, follow, followers, following, help, invite, mkgroup, name, softblock, unfollow">>

NoSuchCommand(name) == <<"no such command '">> \o name \o <<"'">>

NotANumber(msg) ==
    Fmt(msg.arg1)
        \o <<" doesn't look a valid number or user. did you include the country code?">>

InvitePrompt(name) ==
    name \o <<" invited you to follow them on whispr. text (y)es or (n)o to accept">>

\* the grave accent of the invite reply (the character itself cannot be
\* written inside a string here)
Backquote == <<"(grave accent)">>

yes == <<"y", "e", "s">>
no == <<"n", "o">>
stop == <<"s", "t", "o", "p">>
block == <<"b", "l", "o", "c", "k">>
start == <<"s", "t", "a", "r", "t">>
unblock == <<"u", "n", "b", "l", "o", "c", "k">>

\* a handler was entered
Tr(w, label) == [w EXCEPT !.trace = Append(@, label)]

-----------------------------------------------------------------------------
\* WhispererBase commands.

do_help(w, msg) ==
    IF Truthy(msg.arg1)
    THEN IF msg.arg1[1] \in HandlerNames
         THEN IF msg.arg1[1] \in Undocumented
              THEN Return(w, Some(msg.arg1[1] \o <<" isn't documented, sorry :(">>))
              ELSE Return(w, Some(Doc(msg.arg1[1])))
         ELSE Return(w, Some(NoSuchCommand(msg.arg1[1])))
    ELSE Return(w, Some(DocumentedCommands))

do_name(w, msg) ==
    IF msg.arg1 = None
    THEN Return(w, Some(<<"missing name argument. usage: /name [name]">>))
    ELSE IF in_inverse(w, msg.arg1[1]) \/ endswith(msg.arg1[1], proxiedSuffix)
    THEN Return(w, Some(<<"'">> \o msg.arg1[1]
                    \o <<"' is already taken, use /name to set a different name">>))
    ELSE Return(bidict_setitem(w, msg.sender, msg.arg1[1]),
                Some(<<"other users will now see you as ">> \o msg.arg1[1]))

do_echo(w, msg) == Return(w, Some(msg.text))

-----------------------------------------------------------------------------
\* The phone numbers takes_number accepts.

\* pn.parse, pn.is_valid_number and pn.format_number of a token: the written
\* forms of a number differ from its E164 form by hyphens
E164(token) == SelectSeq(token, LAMBDA c : c # "-")

is_valid_number(token) == startswith(token, <<"+">>) /\ E164(token) \in ValidNumbers

-----------------------------------------------------------------------------
\* Whisperer commands.

RECURSIVE broadcast(_, _, _, _, _)
broadcast(w, msg, name, list, post) ==
    IF list = <<>> \/ w.exc # "" THEN w
    ELSE LET w1 == [w EXCEPT !.sent_messages = Put(@, <<w.now, Head(list)>>, post)]
             w2 == send(w1, Head(list), name \o <<": ">> \o msg.text, FALSE)
         IN broadcast(w2, msg, name, Tail(list), post)

\* a faulty do_default: the post goes to the addresses the sender follows
do_default_to_followed(w, msg) ==
    IF msg.sender \notin DOMAIN w.user_names
    THEN Return(send(w, msg.sender, msg.text \o <<" yourself">>, FALSE), None)
    ELSE LET w1 == followers_getitem(w, msg.sender)
             ks == SelectSeq(w1.followers, LAMBDA e : in_list(e.v, msg.sender))
             list == [i \in 1..Len(ks) |-> ks[i].k]
             w2 == IF list = <<>> THEN w1
                   ELSE [w1 EXCEPT !.posts =
                            Append(@, [sender |-> msg.sender, text |-> msg.text,
                                       reactions |-> <<>>])]
         IN Return(broadcast(w2, msg, w.user_names[msg.sender], list, Len(w2.posts)),
                   None)

do_default(w, msg) ==
    IF msg.sender \notin DOMAIN w.user_names
    THEN Return(send(w, msg.sender, msg.text \o <<" yourself">>, FALSE), None)
    ELSE LET w1 == followers_getitem(w, msg.sender)
             list == followers_of(w1.followers, msg.sender)
             w2 == IF list = <<>> THEN w1
                   ELSE [w1 EXCEPT !.posts =
                            Append(@, [sender |-> msg.sender, text |-> msg.text,
                                       reactions |-> <<>>])]
         IN Return(broadcast(w2, msg, w.user_names[msg.sender], list, Len(w2.posts)),
                   None)

\* a faulty do_follow: the sender is notified and appended whether or not it
\* is on the list already
do_follow_number_again(w, msg, target_number) ==
    LET w1 == followers_getitem(w, target_number)
    IN Return(followers_append(send(w1, target_number,
                                    msg.sender_name \o <<" has followed you">>,
                                    FALSE),
                               target_number, msg.sender),
              Some(<<"followed ">> \o Fmt(msg.arg1)))

do_follow_number(w, msg, target_number) ==
    LET w1 == followers_getitem(w, target_number)
    IN IF ~in_list(followers_of(w1.followers, target_number), msg.sender)
       THEN Return(followers_append(send(w1, target_number,
                                         msg.sender_name \o <<" has followed you">>,
                                         FALSE),
                                    target_number, msg.sender),
                   Some(<<"followed ">> \o Fmt(msg.arg1)))
       ELSE Return(w1, Some(<<"you're already following ">> \o Fmt(msg.arg1)))

create_response_callback(w, inviter) ==
    IF inviter \notin DOMAIN w.user_names THEN Raise(w, "KeyError")
    ELSE Return(w, invite_cb(inviter, w.user_names[inviter]))

do_invite_number(w, msg, target_number) ==
    LET w1 == followers_getitem(w, msg.sender)
    IN IF ~in_list(followers_of(w1.followers, msg.sender), target_number)
       THEN LET w2 == create_response_callback(w1, msg.sender)
            IN Return(register_callback(w2, target_number,
                                        InvitePrompt(msg.sender_name), w2.ret),
                      Some(<<"invited ">> \o Fmt(msg.arg1)))
       ELSE Return(w1, Some(<<"you're already following ">> \o Fmt(msg.arg1)))

\* a faulty response_callback: only the whole word and its initial accept
response_callback_exact(w, inviter, inviter_name, msg) ==
    IF lower(msg.text) \in {yes, <<"y">>}
    THEN Return(followers_append(followers_getitem(w, inviter), inviter, msg.sender),
                Some(<<"followed ">> \o inviter_name))
    ELSE IF contains(no, lower(msg.text))
    THEN Return(w, Some(<<"didn't follow ">> \o inviter_name))
    ELSE Return(w, Some(<<"that didn't look like a response. not following ">>
                    \o inviter_name
                    \o <<" by default. if you do want to follow them, text ">>
                    \o Backquote \o <<"/follow ">> \o inviter \o Backquote
                    \o <<" or ">> \o Backquote \o <<"/follow ">> \o inviter_name
                    \o Backquote))

response_callback(w, inviter, inviter_name, msg) ==
    IF contains(yes, lower(msg.text))
    THEN Return(followers_append(followers_getitem(w, inviter), inviter, msg.sender),
                Some(<<"followed ">> \o inviter_name))
    ELSE IF contains(no, lower(msg.text))
    THEN Return(w, Some(<<"didn't follow ">> \o inviter_name))
    ELSE Return(w, Some(<<"that didn't look like a response. not following ">>
                    \o inviter_name
                    \o <<" by default. if you do want to follow them, text ">>
                    \o Backquote \o <<"/follow ">> \o inviter \o Backquote
                    \o <<" or ">> \o Backquote \o <<"/follow ">> \o inviter_name
                    \o Backquote))

RECURSIVE names_of(_, _)
names_of(w, list) ==
    IF list = <<>> \/ w.exc # "" THEN w
    ELSE IF Head(list) \notin DOMAIN w.user_names THEN Raise(w, "KeyError")
    ELSE names_of([w EXCEPT !.ret = Append(@, w.user_names[Head(list)])], Tail(list))

do_followers(w, msg) ==
    IF followers_of(w.followers, msg.sender) # <<>>
    THEN LET w1 == names_of(Return(w, <<>>), followers_of(w.followers, msg.sender))
         IN IF w1.exc # "" THEN w1 ELSE Return(w1, Some(join(", ", w1.ret)))
    ELSE Return(w, Some(<<"you don't have any followers">>))

\* the keys of followers whose list holds sender, in the dict's order
following_of(f, sender) ==
    LET hit == SelectSeq(f, LAMBDA e : in_list(e.v, sender))
    IN [i \in 1..Len(hit) |-> hit[i].k]

do_following(w, msg) ==
    LET w1 == names_of(Return(w, <<>>), following_of(w.followers, msg.sender))
    IN IF w1.exc # "" THEN w1
       ELSE IF w1.ret = <<>> THEN Return(w1, Some(<<"you aren't following anyone">>))
       ELSE Return(w1, Some(join(", ", w1.ret)))

\* a faulty do_softblock: the reply claims a removal also when there was
\* nothing to remove
do_softblock_number_unchecked(w, msg, target_number) ==
    LET w1 == followers_getitem(w, msg.sender)
    IN IF ~in_list(followers_of(w1.followers, msg.sender), target_number)
       THEN Return(w1, Some(<<"softblocked ">> \o Fmt(msg.arg1)))
       ELSE Return(followers_set(w1, msg.sender,
                       list_remove(followers_of(w1.followers, msg.sender),
                                   target_number)),
                   Some(<<"softblocked ">> \o Fmt(msg.arg1)))

do_softblock_number(w, msg, target_number) ==
    LET w1 == followers_getitem(w, msg.sender)
    IN IF ~in_list(followers_of(w1.followers, msg.sender), target_number)
       THEN Return(w1, Some(Fmt(msg.arg1) \o <<" isn't following you">>))
       ELSE Return(followers_set(w1, msg.sender,
                       list_remove(followers_of(w1.followers, msg.sender),
                                   target_number)),
                   Some(<<"softblocked ">> \o Fmt(msg.arg1)))

do_unfollow_number(w, msg, target_number) ==
    LET w1 == followers_getitem(w, target_number)
    IN IF ~in_list(followers_of(w1.followers, target_number), msg.sender)
       THEN Return(w1, Some(<<"you aren't following ">> \o Fmt(msg.arg1)))
       ELSE Return(followers_set(w1, target_number,
                       list_remove(followers_of(w1.followers, target_number),
                                   msg.sender)),
                   Some(<<"unfollowed ">> \o Fmt(msg.arg1)))

do_forceinvite_number(w, msg, target_number) ==
    LET w1 == followers_getitem(w, msg.sender)
    IN IF in_list(followers_of(w1.followers, msg.sender), target_number)
       THEN Return(w1, Some(Fmt(msg.arg1) \o <<" is already following you">>))
       ELSE Return(send(followers_append(w1, msg.sender, target_number), target_number,
                        <<"you are now following ">> \o msg.sender_name, FALSE),
                   Some(Fmt(msg.arg1) \o <<" is now following you">>))

-----------------------------------------------------------------------------
\* The proxy session: do_proxy and its two closures.

proxy_response_callback(w, c, msg) ==
    IF c.who \notin DOMAIN w.user_names THEN Raise(w, "KeyError")
    ELSE IF endswith(w.user_names[c.who], proxiedSuffix)
    THEN LET w1 == send(w, c.who, msg.sender_name \o <<": ">> \o msg.text, FALSE)
         IN Return(register_callback(w1, msg.sender, <<>>, c), None)
    ELSE Return(receive(w, msg), None)

\* if self.user_callbacks.get(user, None) is not callback:
\*     self.register_callback(user, "", callback)
register_unless_current(w, user, callback) ==
    IF ~slot_is(w, user, callback) THEN register_callback(w, user, <<>>, callback)
    ELSE w

proxy_callback(w, c, msg) ==
    IF startswith(msg.text, tProxy)
    THEN Return(bidict_setitem(w, c.who, c.name), Some(<<"exited proxy mode">>))
    ELSE IF Len(split1(msg.text, ":")) < 2 THEN Raise(w, "ValueError")
    ELSE LET target == split1(msg.text, ":")[1]
             proxied_message == split1(msg.text, ":")[2]
             response == proxy_response_cb(c.who, c.name, c.sid)
         IN Return(register_callback(
                       register_unless_current(send(w, target, proxied_message, TRUE),
                                               target, response),
                       c.who, <<"sent">>, c),
                   None)

do_proxy_admin(w, msg) ==
    IF endswith(msg.sender_name, proxiedSuffix) THEN Raise(w, "AssertionError")
    ELSE LET w1 == bidict_setitem(w, msg.sender, msg.sender_name \o proxiedSuffix)
             sid == w.nsess + 1
         IN Return(register_unless_current([w1 EXCEPT !.nsess = sid], msg.sender,
                                           proxy_cb(msg.sender, msg.sender_name, sid)),
                   Some(<<"entered proxy mode">>))

-----------------------------------------------------------------------------
\* The decorators and the handlers they wrap. A wrapped function is passed by
\* the name of its command.

\* command(self, msg, target_number) for the function takes_number wraps
wrapped_by_takes_number(c, w, msg, target_number) ==
    CASE c = cFollow -> do_follow_number(w, msg, target_number)
      [] c = cInvite -> do_invite_number(w, msg, target_number)
      [] c = cSoftblock -> do_softblock_number(w, msg, target_number)
      [] c = cUnfollow -> do_unfollow_number(w, msg, target_number)
      [] c = cForceinvite -> do_forceinvite_number(w, msg, target_number)

\* except (NumberParseException, AssertionError): an AssertionError the wrapped
\* command raises inside the try block is answered like a number that does not parse
except_number(w, msg) ==
    IF w.exc = "AssertionError"
    THEN Return([w EXCEPT !.exc = ""], Some(NotANumber(msg)))
    ELSE w

takes_number(c, w, msg) ==
    IF msg.arg1 # None /\ in_inverse(w, msg.arg1[1])
    THEN wrapped_by_takes_number(c, w, msg, inverse(w, msg.arg1[1]))
    ELSE IF msg.arg1 # None /\ is_valid_number(msg.arg1[1])
    THEN except_number(wrapped_by_takes_number(c, w, msg, E164(msg.arg1[1])), msg)
    ELSE Return(w, Some(NotANumber(msg)))

do_follow(w, msg) == takes_number(cFollow, w, msg)

do_invite(w, msg) == takes_number(cInvite, w, msg)

do_softblock(w, msg) == takes_number(cSoftblock, w, msg)

do_unfollow(w, msg) == takes_number(cUnfollow, w, msg)

do_forceinvite_admin(w, msg) == takes_number(cForceinvite, w, msg)

\* command(self, msg) for the function admin wraps
wrapped_by_admin(c, w, msg) ==
    CASE c = cForceinvite -> do_forceinvite_admin(w, msg)
      [] c = cProxy -> do_proxy_admin(w, msg)

\* a faulty admin: the wrapped command runs for every sender
admin_for_everyone(c, w, msg) == wrapped_by_admin(c, w, msg)

admin(c, w, msg) ==
    IF msg.sender \in admins THEN wrapped_by_admin(c, w, msg)
    ELSE Return(w, Some(AdminOnly))

do_forceinvite(w, msg) == admin(cForceinvite, w, msg)

do_proxy(w, msg) == admin(cProxy, w, msg)

-----------------------------------------------------------------------------
\* Invoking what user_callbacks holds.

\* a registered callback (not a bundle) is called with msg
leaf(w, e, msg) ==
    LET w1 == [w EXCEPT !.invoked = Append(@, e.reg),
                        !.invokedHist = Append(@, e.reg)]
    IN CASE e.cb.kind = "do_name" -> do_name(w1, msg)
         [] e.cb.kind = "response_callback" ->
                response_callback(w1, e.cb.who, e.cb.name, msg)
         [] e.cb.kind = "proxy_response_callback" ->
                proxy_response_callback(w1, e.cb, msg)
         [] e.cb.kind = "proxy_callback" -> proxy_callback(w1, e.cb, msg)

\* a faulty callback_bundle: the prompt is issued, the callback is not installed
callback_bundle_not_installing(w, user, previous_callback, e, msg) ==
    LET w1 == call(w, user, previous_callback, msg)
        w2 == IF Truthy(w1.ret) THEN send(w1, user, w1.ret[1], FALSE) ELSE w1
    IN IF w1.exc # "" THEN w1
       ELSE IF w2.exc # "" THEN w2
       ELSE Return([w2 EXCEPT !.prompted = @ \cup {e.reg}], Some(e.prompt))

\* register_callback's closure: previous_callback, then the prompt of e.cb
callback_bundle(w, user, previous_callback, e, msg) ==
    LET w1 == call(w, user, previous_callback, msg)
        w2 == IF Truthy(w1.ret) THEN send(w1, user, w1.ret[1], FALSE) ELSE w1
    IN IF w1.exc # "" THEN w1
       ELSE IF w2.exc # "" THEN w2
       ELSE Return([w2 EXCEPT
                       !.user_callbacks =
                           Put(@, user, <<[cb |-> e.cb, prompt |-> <<>>, reg |-> e.reg]>>),
                       !.prompted = @ \cup {e.reg}],
                   Some(e.prompt))

call(w, user, chain, msg) ==
    IF Len(chain) = 1 THEN leaf(w, chain[1], msg)
    ELSE callback_bundle(w, user, SubSeq(chain, 1, Len(chain) - 1),
                         chain[Len(chain)], msg)

-----------------------------------------------------------------------------
\* receive

\* getattr(self, "do_" + command)(msg)
dispatch(w, msg) ==
    LET c == msg.command[1]
    IN CASE c = cDefault -> do_default(Tr(w, "do_default"), msg)
         [] c = cEcho -> do_echo(Tr(w, "do_echo"), msg)
         [] c = cFollow -> do_follow(Tr(w, "do_follow"), msg)
         [] c = cFollowers -> do_followers(Tr(w, "do_followers"), msg)
         [] c = cFollowing -> do_following(Tr(w, "do_following"), msg)
         [] c = cForceinvite -> do_forceinvite(Tr(w, "do_forceinvite"), msg)
         [] c = cHelp -> do_help(Tr(w, "do_help"), msg)
         [] c = cInvite -> do_invite(Tr(w, "do_invite"), msg)
         [] c = cName -> do_name(Tr(w, "do_name"), msg)
         [] c = cProxy -> do_proxy(Tr(w, "do_proxy"), msg)
         [] c = cSoftblock -> do_softblock(Tr(w, "do_softblock"), msg)
         [] c = cUnfollow -> do_unfollow(Tr(w, "do_unfollow"), msg)
         [] OTHER -> Raise(w, "OutsideTheModel")

\* if resp is not None: self.send(msg.sender, resp)
send_resp(w, msg) ==
    IF w.exc # "" THEN w
    ELSE IF w.ret # None THEN send(w, msg.sender, w.ret[1], FALSE)
    ELSE w

\* self.blocked.add(sender), unless an exception is in flight
blocked_add(w, sender) ==
    IF w.exc # "" THEN w ELSE [w EXCEPT !.blocked = @ \cup {sender}]

\* the routing of a message that is no compliance keyword
route(w, msg) ==
    IF msg.sender \in DOMAIN w.user_callbacks
    THEN call([Tr(w, "callback") EXCEPT !.user_callbacks = Del(@, msg.sender)],
              msg.sender, w.user_callbacks[msg.sender], msg)
    ELSE IF Truthy(msg.command)
    THEN IF msg.command[1] \in HandlerNames
         THEN dispatch(w, msg)
         ELSE Return(Tr(w, "no_such_command"), Some(NoSuchCommand(msg.command[1])))
    ELSE do_default(Tr(w, "do_default"), msg)

\* a faulty try block: an outstanding callback is served before the compliance gate
receive_try_callback_first(w, msg) ==
    LET w1 == [w EXCEPT !.received_messages = @ \cup {<<msg.ts, msg.sender>>}]
    IN IF msg.sender \in DOMAIN w1.user_callbacks
       THEN send_resp(route(w1, msg), msg)
       ELSE IF msg.text # <<>> /\ lower(msg.text) \in {stop, block}
       THEN Return(blocked_add(send(Tr(w1, "stop"), msg.sender, StopConfirmation, FALSE),
                               msg.sender),
                   None)
       ELSE IF msg.text # <<>> /\ lower(msg.text) \in {start, unblock}
       THEN IF msg.sender \in w1.blocked
            THEN Return(send([Tr(w1, "start") EXCEPT !.blocked = @ \ {msg.sender}],
                             msg.sender, WelcomeBack, FALSE), None)
            ELSE Return(send(Tr(w1, "start"), msg.sender, WerentBlocked, FALSE), None)
       ELSE send_resp(route(w1, msg), msg)

\* a faulty try block: the sender is blocked before the confirmation is sent
receive_try_blocking_first(w, msg) ==
    LET w1 == [w EXCEPT !.received_messages = @ \cup {<<msg.ts, msg.sender>>}]
    IN IF msg.text # <<>> /\ lower(msg.text) \in {stop, block}
       THEN Return(send(blocked_add(Tr(w1, "stop"), msg.sender), msg.sender,
                        StopConfirmation, FALSE),
                   None)
       ELSE IF msg.text # <<>> /\ lower(msg.text) \in {start, unblock}
       THEN IF msg.sender \in w1.blocked
            THEN Return(send([Tr(w1, "start") EXCEPT !.blocked = @ \ {msg.sender}],
                             msg.sender, WelcomeBack, FALSE), None)
            ELSE Return(send(Tr(w1, "start"), msg.sender, WerentBlocked, FALSE), None)
       ELSE send_resp(route(w1, msg), msg)

\* the body of receive's try block
receive_try(w, msg) ==
    LET w1 == [w EXCEPT !.received_messages = @ \cup {<<msg.ts, msg.sender>>}]
    IN IF msg.text # <<>> /\ lower(msg.text) \in {stop, block}
       THEN Return(blocked_add(send(Tr(w1, "stop"), msg.sender, StopConfirmation, FALSE),
                               msg.sender),
                   None)
       ELSE IF msg.text # <<>> /\ lower(msg.text) \in {start, unblock}
       THEN IF msg.sender \in w1.blocked
            THEN Return(send([Tr(w1, "start") EXCEPT !.blocked = @ \ {msg.sender}],
                             msg.sender, WelcomeBack, FALSE), None)
            ELSE Return(send(Tr(w1, "start"), msg.sender, WerentBlocked, FALSE), None)
       ELSE send_resp(route(w1, msg), msg)

\* raise: the exception the try block raised goes on, unless the apology's own
\* send has raised
reraise(w, exc) == IF w.exc # "" THEN w ELSE [w EXCEPT !.exc = exc]

\* a faulty except clause: the exception is swallowed after the apology
except_swallowing(w, msg) ==
    IF w.exc = "" THEN w
    ELSE send([w EXCEPT !.exc = ""], msg.sender, Oopsie, FALSE)

\* except: send the apology; raise
except_clause(w, msg) ==
    IF w.exc = "" THEN w
    ELSE reraise(send([w EXCEPT !.exc = ""], msg.sender, Oopsie, FALSE), w.exc)

\* try: ... except: ...
receive(w, msg) == except_clause(receive_try(w, msg), msg)

-----------------------------------------------------------------------------
\* receive_reaction

\* the account signal-cli runs under
SERVER_NUMBER == <<"+", "0">>

\* Reaction.__init__: the fields of the envelope's reaction
Reaction(emoji, targetAuthor, targetTimestamp) ==
    [emoji |-> emoji, author |-> targetAuthor, ts |-> targetTimestamp]

\* for i in range(n): fib.append(fib[-2] + fib[-1])
RECURSIVE fib_append(_, _)
fib_append(l, n) ==
    IF n = 0 THEN l
    ELSE fib_append(Append(l, l[Len(l) - 1] + l[Len(l)]), n - 1)

\* a faulty table: the numbers from 0 up, not the Fibonacci numbers
fib_counting == [i \in 1..22 |-> i - 1]

fib == fib_append(<<0, 1>>, 20)

\* dict.__setitem__ on a reaction map, kept as name/emoji pairs in insertion
\* order: a name that is present keeps its place
reactions_setitem(r, name, emoji) ==
    IF \E i \in 1..Len(r) : r[i].name = name
    THEN [i \in 1..Len(r) |-> IF r[i].name = name
                              THEN [name |-> name, emoji |-> emoji] ELSE r[i]]
    ELSE Append(r, [name |-> name, emoji |-> emoji])

\* f"{name}: {react}" for each item of the reaction map
notif_items(r) == [i \in 1..Len(r) |-> r[i].name \o <<": ">> \o r[i].emoji]

\* react.ts not in self.sent_messages
ts_in_sent_messages(w, ts) == \E k \in DOMAIN w.sent_messages : k[1] = ts

\* a faulty receive_reaction: the notification goes to the reactor
receive_reaction_to_reactor(w, msg) ==
    LET react == msg.reaction
        w1 == [w EXCEPT !.received_messages = @ \cup {<<msg.ts, msg.sender>>}]
    IN IF react.author # SERVER_NUMBER \/ ~ts_in_sent_messages(w1, react.ts)
       THEN Return(w1, None)
       ELSE IF <<react.ts, msg.sender>> \notin DOMAIN w1.sent_messages
       THEN Raise(w1, "KeyError")
       ELSE LET p == w1.sent_messages[<<react.ts, msg.sender>>]
                r == reactions_setitem(w1.posts[p].reactions, msg.sender_name,
                                       react.emoji)
                w2 == [w1 EXCEPT !.posts[p].reactions = r]
            IN IF ~in_list(fib, Len(r)) THEN Return(w2, None)
               ELSE Return(send(w2, msg.sender,
                                <<"reactions to '">> \o w1.posts[p].text \o <<"': ">>
                                    \o join(", ", notif_items(r)), FALSE),
                           None)

receive_reaction(w, msg) ==
    LET react == msg.reaction
        w1 == [w EXCEPT !.received_messages = @ \cup {<<msg.ts, msg.sender>>}]
    IN IF react.author # SERVER_NUMBER \/ ~ts_in_sent_messages(w1, react.ts)
       THEN Return(w1, None)
       ELSE IF <<react.ts, msg.sender>> \notin DOMAIN w1.sent_messages
       THEN Raise(w1, "KeyError")
       ELSE LET p == w1.sent_messages[<<react.ts, msg.sender>>]
                r == reactions_setitem(w1.posts[p].reactions, msg.sender_name,
                                       react.emoji)
                w2 == [w1 EXCEPT !.posts[p].reactions = r]
            IN IF ~in_list(fib, Len(r)) THEN Return(w2, None)
               ELSE Return(send(w2, w1.posts[p].sender,
                                <<"reactions to '">> \o w1.posts[p].text \o <<"': ">>
                                    \o join(", ", notif_items(r)), FALSE),
                           None)

\* a faulty handling of a reaction envelope: the reaction of a sender with an
\* outstanding callback consumes the callback
ReactionMessage_consuming(w, sender, reaction, ts) ==
    IF sender \in DOMAIN w.user_callbacks
    THEN [w EXCEPT !.user_callbacks = Del(@, sender)]
    ELSE receive_reaction(w, [sender |-> sender,
                              sender_name |-> IF sender \in DOMAIN w.user_names
                                              THEN w.user_names[sender] ELSE sender,
                              ts |-> ts, reaction |-> reaction])

\* Message.__init__ for an envelope that carries a reaction and no text: the
\* text is None, and splitting it for a sender with an outstanding callback
\* raises
ReactionMessage(w, sender, reaction, ts) ==
    IF sender \in DOMAIN w.user_callbacks THEN Raise(w, "AttributeError")
    ELSE receive_reaction(w, [sender |-> sender,
                              sender_name |-> IF sender \in DOMAIN w.user_names
                                              THEN w.user_names[sender] ELSE sender,
                              ts |-> ts, reaction |-> reaction])

-----------------------------------------------------------------------------
\* The state machine.

\* the working state an operation starts from
Cur ==
    [user_names |-> user_names, followers |-> followers, blocked |-> blocked,
     user_callbacks |-> user_callbacks, received_messages |-> received_messages,
     sent_messages |-> sent_messages, posts |-> posts, now |-> now,
     nreg |-> nreg, nsess |-> nsess, regUser |-> regUser,
     invokedHist |-> invokedHist, prompted |-> prompted,
     outbox |-> <<>>, exc |-> "", ret |-> None, trace |-> <<>>, invoked |-> <<>>]

Store(w, o) ==
    /\ user_names' = w.user_names
    /\ followers' = w.followers
    /\ blocked' = w.blocked
    /\ user_callbacks' = w.user_callbacks
    /\ received_messages' = w.received_messages
    /\ sent_messages' = w.sent_messages
    /\ posts' = w.posts
    /\ now' = w.now
    /\ nreg' = w.nreg
    /\ nsess' = w.nsess
    /\ regUser' = w.regUser
    /\ invokedHist' = w.invokedHist
    /\ prompted' = w.prompted
    /\ outbox' = w.outbox
    /\ raised' = w.exc
    /\ trace' = w.trace
    /\ invoked' = w.invoked
    /\ op' = o

\* the fields after a message or a send request
Commit(w, o) ==
    /\ Store(w, o)
    /\ nevents' = nevents + 1
    /\ nreact' = nreact

\* emoji of the reaction scenarios
smile == <<":)">>
frown == <<":(">>

\* run() goes on after a KeyError; any other exception ends the process
Running == raised \in {"", "KeyError"}

\* run(): one data message read from signal-cli and handed to receive
Receive(sender, text) ==
    /\ nevents < MaxEvents
    /\ Running
    /\ Commit(receive(Cur, Message(Cur, sender, text, now)),
              [kind |-> "receive", who |-> sender, text |-> text])

\* flask_handler(): a "send" event of the listener
ExternalSend(recipient, message) ==
    /\ nevents < MaxEvents
    /\ Running
    /\ Commit(send(Cur, recipient, message, FALSE),
              [kind |-> "send", who |-> recipient, text |-> message])

\* run(): one data message that carries a reaction
ReceiveReaction(sender, emoji, targetAuthor, targetTimestamp) ==
    /\ nreact < MaxReactions
    /\ Running
    /\ Store(ReactionMessage(Cur, sender,
                             Reaction(emoji, targetAuthor, targetTimestamp), now),
             [kind |-> "reaction", who |-> sender,
              text |-> Reaction(emoji, targetAuthor, targetTimestamp)])
    /\ nreact' = nreact + 1
    /\ nevents' = nevents

\* the state after __enter__ has loaded a snapshot with two named users, one
\* following the other
Init ==
    /\ user_names = [a \in {A1, A2} |-> IF a = A1 THEN alice ELSE bob]
    /\ followers = <<[k |-> A2, v |-> <<A1>>]>>
    /\ blocked = {}
    /\ user_callbacks = [a \in {} |-> <<>>]
    /\ received_messages = {}
    /\ sent_messages = [a \in {} |-> 0]
    /\ posts = <<>>
    /\ now = 0
    /\ nreg = 0
    /\ nsess = 0
    /\ regUser = <<>>
    /\ invokedHist = <<>>
    /\ prompted = {}
    /\ op = [kind |-> "init", who |-> <<>>, text |-> <<>>]
    /\ outbox = <<>>
    /\ raised = ""
    /\ trace = <<>>
    /\ invoked = <<>>
    /\ nevents = 0
    /\ nreact = 0

\* the messages of the callback and proxy scenarios
CallbackEvents ==
    {<<A1, tInvite3>>, <<A1, tInviteBo>>, <<A1, tProxy>>, <<A1, tRelay3>>,
     <<A2, tY>>, <<A2, tSTOP>>, <<A3, tHi>>, <<A3, tY>>}

Next ==
    \/ \E e \in CallbackEvents : Receive(e[1], e[2])
    \/ \E m \in {tHi} : ExternalSend(A3, m)

Spec == Init /\ [][Next]_vars

\* the messages of the compliance and failure scenarios
GateEvents ==
    {<<A1, tSTOP>>, <<A1, tStart>>, <<A1, tProxy>>, <<A1, tRelay3>>, <<A1, tHi>>,
     <<A2, tSTOP>>, <<A2, tHi>>, <<A2, tName3>>, <<A3, tStart>>, <<A3, tSTOP>>}

NextGate ==
    \/ \E e \in GateEvents : Receive(e[1], e[2])
    \/ \E m \in {tHi} : ExternalSend(A3, m)

SpecGate == Init /\ [][NextGate]_vars

\* the messages of one proxy session: entering, relaying, answering, leaving
ProxyEvents ==
    {<<A1, tProxy>>, <<A1, tRelay3>>, <<A1, tRelay1>>, <<A2, tProxy>>,
     <<A2, tNameAl>>, <<A3, tProxy>>, <<A3, tHi>>, <<A3, tHelp>>}

NextProxy == \E e \in ProxyEvents : Receive(e[1], e[2])

SpecProxy == Init /\ [][NextProxy]_vars

\* the messages of a proxy session with invitations arriving during it
CoexistEvents ==
    {<<A1, tProxy>>, <<A1, tRelay3>>, <<A2, tSoftblockAl>>, <<A2, tInvite1>>,
     <<A2, tInvite3>>, <<A3, tHi>>, <<A3, tY>>}

NextCoexist == \E e \in CoexistEvents : Receive(e[1], e[2])

SpecCoexist == Init /\ [][NextCoexist]_vars

\* the messages of the follow scenarios
FollowEvents ==
    {<<A1, tFollow3>>, <<A1, tFollowBo>>, <<A1, tUnfollow3>>, <<A1, tSTOP>>,
     <<A2, tFollow1>>, <<A3, tFollow1>>}

NextFollow == \E e \in FollowEvents : Receive(e[1], e[2])

SpecFollow == Init /\ [][NextFollow]_vars

\* the messages that change the follower graph or try to
GraphEvents ==
    {<<A1, tFollow3>>, <<A1, tUnfollow3>>, <<A1, tInviteBo>>, <<A2, tY>>,
     <<A2, tSoftblockAl>>, <<A2, tSTOP>>, <<A3, tSoftblockAl>>, <<A3, tUnfollow3>>}

NextGraph == \E e \in GraphEvents : Receive(e[1], e[2])

SpecGraph == Init /\ [][NextGraph]_vars

\* the messages that post, and that build, cut and block the follower lists
PostEvents ==
    {<<A1, tHello>>, <<A2, tHiAl>>, <<A2, tFollow1>>, <<A1, tInviteBo>>,
     <<A1, tForceinviteBo>>, <<A2, tY>>, <<A2, tSTOP>>, <<A3, tFollow1>>,
     <<A2, tUnfollowAl>>, <<A1, tSoftblockBo>>}

NextPost == \E e \in PostEvents : Receive(e[1], e[2])

SpecPost == Init /\ [][NextPost]_vars

\* the messages that begin with the command marker, and the keywords
CommandEvents ==
    {<<A1, tFoo>>, <<A1, tEchoStop>>, <<A1, tFooStop>>, <<A2, tSlash>>,
     <<A2, tName3>>, <<A2, tSTOP>>, <<A2, tStart>>, <<A3, tFoo>>,
     <<A3, tSlashStop>>}

NextCommands == \E e \in CommandEvents : Receive(e[1], e[2])

SpecCommands == Init /\ [][NextCommands]_vars

\* the commands that take a target, with targets that resolve by name, by
\* number, and not at all
ResolveEvents ==
    {<<A1, tFollowStop>>, <<A1, tFollowZz>>, <<A1, tFollow3>>, <<A1, tUnfollow3>>,
     <<A2, tName3>>, <<A2, tSoftblockAl>>, <<A2, tInvite>>, <<A2, tInvite1>>,
     <<A3, tUnfollowZz>>, <<A3, tSoftblockZz>>}

NextResolve == \E e \in ResolveEvents : Receive(e[1], e[2])

SpecResolve == Init /\ [][NextResolve]_vars

\* self.send(recipient, message, force=force): one call of send on its own
SendCall(recipient, message, force) ==
    /\ nevents < MaxEvents
    /\ Running
    /\ Commit(send(Cur, recipient, message, force),
              [kind |-> "call", who |-> recipient, text |-> message,
               force |-> force])

\* the messages that block, unblock and take the name of a number
SendEvents == {<<A2, tSTOP>>, <<A2, tStart>>, <<A2, tName3>>, <<A3, tHi>>}

NextSend ==
    \/ \E e \in SendEvents : Receive(e[1], e[2])
    \/ \E r \in {A2, A3}, m \in {<<>>, tHi}, f \in BOOLEAN : SendCall(r, m, f)

SpecSend == Init /\ [][NextSend]_vars

\* invitations and the answers to them
InviteEvents ==
    {<<A1, tInviteBo>>, <<A1, tInvite3>>, <<A2, tY>>, <<A2, tES>>, <<A2, tN>>,
     <<A2, tHi>>, <<A2, tEmpty>>, <<A2, tSTOP>>, <<A3, tY>>, <<A3, tHi>>}

NextInvite == \E e \in InviteEvents : Receive(e[1], e[2])

SpecInvite == Init /\ [][NextInvite]_vars

\* posts, registrations of callbacks, and reactions of addresses with and
\* without a callback outstanding
FrameEvents == {<<A2, tHi>>, <<A1, tProxy>>, <<A1, tInviteBo>>, <<A2, tN>>}

FrameReactions ==
    {<<A1, smile, SERVER_NUMBER, 0>>, <<A2, smile, SERVER_NUMBER, 0>>,
     <<A1, frown, A2, 0>>, <<A3, smile, SERVER_NUMBER, 0>>}

NextReactFrame ==
    \/ \E e \in FrameEvents : Receive(e[1], e[2])
    \/ \E e \in FrameReactions : ReceiveReaction(e[1], e[2], e[3], e[4])

SpecReactFrame == Init /\ [][NextReactFrame]_vars

\* the messages that set, take and tag names
NameEvents ==
    {<<A1, tProxy>>, <<A1, tNameAl>>, <<A2, tNameAl>>, <<A2, tName3>>,
     <<A2, tNameProxied>>, <<A2, tName>>, <<A3, tHi>>}

NextNames == \E e \in NameEvents : Receive(e[1], e[2])

SpecNames == Init /\ [][NextNames]_vars

\* the readers of bob's posts in the reaction scenarios
Fans == <<A1, <<"+", "4">>, <<"+", "5">>, <<"+", "6">>, <<"+", "7">>, <<"+", "8">>>>

FanName(a) == IF a = A1 THEN alice ELSE IF a = A2 THEN bob ELSE <<"u", a[2]>>

\* the state after __enter__ has loaded a snapshot in which the fans follow bob
InitReact ==
    /\ user_names = [a \in {A2} \cup {Fans[i] : i \in 1..Len(Fans)} |-> FanName(a)]
    /\ followers = <<[k |-> A2, v |-> Fans]>>
    /\ blocked = {}
    /\ user_callbacks = [a \in {} |-> <<>>]
    /\ received_messages = {}
    /\ sent_messages = [a \in {} |-> 0]
    /\ posts = <<>>
    /\ now = 0
    /\ nreg = 0
    /\ nsess = 0
    /\ regUser = <<>>
    /\ invokedHist = <<>>
    /\ prompted = {}
    /\ op = [kind |-> "init", who |-> <<>>, text |-> <<>>]
    /\ outbox = <<>>
    /\ raised = ""
    /\ trace = <<>>
    /\ invoked = <<>>
    /\ nevents = 0
    /\ nreact = 0

\* address a is on the reaction map of the post it was sent this second
Reacted(a) ==
    /\ <<now, a>> \in DOMAIN sent_messages
    /\ \E i \in 1..Len(posts[sent_messages[<<now, a>>]].reactions) :
          posts[sent_messages[<<now, a>>]].reactions[i].name = user_names[a]

\* the fans are interchangeable, so they enter in the order of the follower
\* list: a fan reacts once the fan before it is on the map
Heard(i) == i = 1 \/ Reacted(Fans[i - 1])

\* the reactions of the reaction scenarios: a fan smiles at the post of second
\* 0, alice also frowns at it, bob reacts to his own post, alice reacts to a
\* message of somebody else and to a second nothing was sent in
ReactEvents ==
    {<<Fans[i], smile, SERVER_NUMBER, 0>> : i \in {h \in 1..Len(Fans) : Heard(h)}}
        \cup {<<A1, frown, SERVER_NUMBER, 0>>, <<A2, smile, SERVER_NUMBER, 0>>,
              <<A1, smile, A2, 0>>, <<A1, smile, SERVER_NUMBER, 1>>}

NextReact ==
    \/ \E e \in {<<A2, tHi>>} : Receive(e[1], e[2])
    \/ \E e \in ReactEvents : ReceiveReaction(e[1], e[2], e[3], e[4])

SpecReact == InitReact /\ [][NextReact]_vars

-----------------------------------------------------------------------------
\* Vocabulary of the properties.

\* the registrations outstanding for address a, directly or inside a composite
Pending(a) ==
    IF a \in DOMAIN user_callbacks THEN RegsOf(user_callbacks[a]) ELSE {}

\* the registrations made on address a, in the order they were made
RegsFor(a) == SelectSeq([i \in 1..nreg |-> i], LAMBDA r : regUser[r] = a)

\* the registrations of address a that were invoked, in the order of invocation
InvokedFor(a) == SelectSeq(invokedHist, LAMBDA r : regUser[r] = a)

IsPrefix(s, t) == Len(s) <= Len(t) /\ SubSeq(t, 1, Len(s)) = s

\* the transport writes of box addressed to a
OutboxTo(box, a) == SelectSeq(box, LAMBDA e : e.recipient = a)

Delivered(box, a, message) ==
    \E i \in 1..Len(box) : box[i].recipient = a /\ box[i].message = message

\* the message object run() builds for the operation that op' describes
MsgOfStep == Message(Cur, op'.who, op'.text, now)

StopWord(t) == t # <<>> /\ lower(t) \in {stop, block}

StartWord(t) == t # <<>> /\ lower(t) \in {start, unblock}

\* a receive step for a sender with an outstanding callback and a non-keyword text
CallbackStep ==
    /\ op'.kind = "receive"
    /\ op'.who \in DOMAIN user_callbacks
    /\ ~StopWord(op'.text)
    /\ ~StartWord(op'.text)

-----------------------------------------------------------------------------
C2_FifoTurns ==
    /\ \A r \in 1..nreg : IsPrefix(InvokedFor(regUser[r]), RegsFor(regUser[r]))
    /\ \A i, j \in 1..Len(invokedHist) : invokedHist[i] = invokedHist[j] => i = j
    /\ \A r \in prompted :
          \A q \in 1..(r - 1) : regUser[q] = regUser[r] => in_list(invokedHist, q)

-----------------------------------------------------------------------------
\* the sends the two-deep composite owes the sender: the first callback's reply
\* if it is non-empty, then the second registration's prompt if it is non-empty
OwedSends(reply, prompt) ==
    (IF Truthy(reply) THEN <<reply[1]>> ELSE <<>>)
        \o (IF prompt # <<>> THEN <<prompt>> ELSE <<>>)

\* the messages of box, in order
MessagesOf(box) == [i \in 1..Len(box) |-> box[i].message]

EndsWith(s, t) == Len(t) <= Len(s) /\ SubSeq(s, Len(s) - Len(t) + 1, Len(s)) = t

\* a step that composes registrations behind the ones address u already holds
\* issues none of their prompts
ComposedSilently ==
    \A u \in DOMAIN user_callbacks :
        (/\ u \in DOMAIN user_callbacks'
         /\ Len(user_callbacks'[u]) > Len(user_callbacks[u])
         /\ IsPrefix(user_callbacks[u], user_callbacks'[u]))
        => \A i \in (Len(user_callbacks[u]) + 1)..Len(user_callbacks'[u]) :
              LET e == user_callbacks'[u][i]
              IN /\ e.reg \notin prompted'
                 /\ e.prompt # <<>> => ~Delivered(outbox', u, e.prompt)

\* the next non-keyword message of a sender holding exactly two registrations:
\* the first is invoked, its reply and then the second prompt are the last
\* sends to the sender, and the second is first in line afterwards
SecondTurn(pre, direct) ==
    (CallbackStep /\ Len(user_callbacks[op'.who]) = 2 /\ pre)
    => LET s == op'.who
           c1 == user_callbacks[s][1]
           c2 == user_callbacks[s][2]
           first == call([Cur EXCEPT !.user_callbacks = Del(@, s)], s, <<c1>>,
                         MsgOfStep)
       IN /\ invoked' = <<c1.reg>>
          /\ EndsWith(MessagesOf(OutboxTo(outbox', s)), OwedSends(first.ret, c2.prompt))
          /\ c2.reg \in prompted'
          /\ s \in DOMAIN user_callbacks'
          /\ user_callbacks'[s][1].reg = c2.reg
          /\ user_callbacks'[s][1].cb = c2.cb
          /\ direct => Len(user_callbacks'[s]) = 1

-----------------------------------------------------------------------------
\* the callback's proxy session has ended, so it hands the message back to receive
Redispatches(c) ==
    /\ c.cb.kind = "proxy_response_callback"
    /\ c.cb.who \in DOMAIN user_names
    /\ ~endswith(user_names[c.cb.who], proxiedSuffix)

\* a non-keyword message of a sender with an outstanding callback: the message
\* carries the whole text and no command, the first registration in line is
\* popped and invoked once, it was never invoked before, and routing does
\* nothing else (unless redispatch is granted to a relay whose session ended)
CallbackRouting(redispatch) ==
    CallbackStep
    => LET s == op'.who
           c1 == user_callbacks[s][1]
       IN /\ MsgOfStep.text = op'.text
          /\ MsgOfStep.command = None
          /\ ~in_list(invokedHist, c1.reg)
          /\ invoked' = <<c1.reg>>
          /\ s \in DOMAIN user_callbacks' => c1.reg \notin RegsOf(user_callbacks'[s])
          /\ IF redispatch /\ Redispatches(c1)
             THEN trace' = <<"callback", "do_default">>
             ELSE trace' = <<"callback">>

\* C4: when the sender has an outstanding callback and the message is not a
\* compliance keyword, the callback is popped and invoked exactly once with the
\* whole text verbatim, even if the text starts with '/', and each registration
\* is delivered at most one message; no command handler and no default
\* broadcast runs, except that a proxy relay whose session has ended hands the
\* message to the default broadcast.
C4_CallbackGetsMessage == [][CallbackRouting(TRUE)]_vars

\* C4 as stated: no command handler and no default broadcast runs, ever
C4_AsStated == [][CallbackRouting(FALSE)]_vars

\* C4 witness: a text that starts with '/' went to the outstanding callback and
\* to nothing else
C4_Witness ==
    /\ op.kind = "receive"
    /\ raised = ""
    /\ startswith(op.text, <<"/">>)
    /\ trace = <<"callback">>
    /\ Len(invoked) = 1

-----------------------------------------------------------------------------
\* C5: a stop or block from an address with an outstanding callback is handled
\* by the compliance gate alone: the callback is not invoked and is still
\* outstanding afterwards, and no command or default routing happens.
C5_StopBeatsCallback ==
    [][(op'.kind = "receive" /\ op'.who \in DOMAIN user_callbacks
            /\ StopWord(op'.text))
       => /\ trace' = <<"stop">>
          /\ invoked' = <<>>
          /\ op'.who \in DOMAIN user_callbacks'
          /\ IsPrefix(user_callbacks[op'.who], user_callbacks'[op'.who])]_vars

\* C5 witness: the administrator said STOP in the middle of a proxy session
C5_Witness ==
    /\ op.kind = "receive"
    /\ StopWord(op.text)
    /\ trace = <<"stop">>
    /\ invoked = <<>>
    /\ op.who \in blocked
    /\ op.who \in DOMAIN user_callbacks
    /\ user_callbacks[op.who][1].cb.kind = "proxy_callback"
    /\ MessagesOf(outbox) = <<StopConfirmation>>

-----------------------------------------------------------------------------
\* the transport writes of the step to addresses blocked before and after it
WritesToBlocked ==
    {i \in 1..Len(outbox') :
        outbox'[i].recipient \in blocked /\ outbox'[i].recipient \in blocked'}

\* C6: while an address is in the blocklist no send without force delivers
\* anything to it, whatever operation issued the send; a forced send (a proxy
\* relay) is delivered all the same.
C6_BlockedGetsOnlyForced == [][\A i \in WritesToBlocked : outbox'[i].force]_vars

\* C6 as stated: nothing at all is delivered to a blocked address
C6_AsStated == [][WritesToBlocked = {}]_vars

\* C6 witness: a broadcast whose only follower is blocked delivered nothing to
\* that follower
C6_Witness ==
    /\ op.kind = "receive"
    /\ raised = ""
    /\ trace = <<"do_default">>
    /\ posts # <<>>
    /\ \E a \in blocked :
          /\ a # op.who
          /\ in_list(followers_of(followers, op.who), a)
          /\ OutboxTo(outbox, a) = <<>>

-----------------------------------------------------------------------------
\* a message the compliance gate reads as stop or block
GateStop == op'.kind = "receive" /\ StopWord(MsgOfStep.text)

-----------------------------------------------------------------------------
\* C8: a start or unblock from a blocked address removes it from the blocklist
\* and replies 'welcome back'; from an address that is not blocked it replies
\* 'you weren't blocked' and leaves the blocklist as it was; no callback, command
\* or default routing happens.
C8_StartUnblock ==
    [][(op'.kind = "receive" /\ StartWord(MsgOfStep.text))
       => /\ trace' = <<"start">>
          /\ invoked' = <<>>
          /\ IF op'.who \in blocked
             THEN /\ blocked' = blocked \ {op'.who}
                  /\ Delivered(outbox', op'.who, WelcomeBack)
             ELSE /\ blocked' = blocked
                  /\ Delivered(outbox', op'.who, WerentBlocked)]_vars

-----------------------------------------------------------------------------
\* a send without force of a non-empty text to an address the book does not know
FirstContact ==
    /\ op'.kind = "send"
    /\ op'.who \notin DOMAIN user_names
    /\ op'.text # <<>>

\* the address string is already the display name of some user
NameInUse(w, a) == a \notin DOMAIN w.user_names /\ in_inverse(w, a)

Plain(a, message) == [recipient |-> a, message |-> message, force |-> FALSE]

\* the three sends of onboarding, the name and the name-setting handler
Onboarded ==
    /\ raised' = ""
    /\ outbox' = <<Plain(op'.who, Welcome), Plain(op'.who, op'.text),
                   Plain(op'.who, NamePrompt)>>
    /\ user_names' = Put(user_names, op'.who, op'.who)
    /\ op'.who \in DOMAIN user_callbacks'
    /\ Len(user_callbacks'[op'.who]) = 1
    /\ user_callbacks'[op'.who][1].cb = do_name_cb

-----------------------------------------------------------------------------
\* what the try block of receive does with the message of the step
Body == receive_try(Cur, MsgOfStep)

\* the writes of the step after those of the try block
AfterBody == SubSeq(outbox', Len(Body.outbox) + 1, Len(outbox'))

\* C10: if anything raises while receive handles a message, an exception
\* propagates to the caller, never swallowed: the one raised, with the apology
\* delivered to the sender, unless the sender is blocked (the same exception,
\* no apology) or the sender is unknown and its address string is in use as a
\* name (the apology's own send raises, no apology).
C10_ApologyAndReraise ==
    [][(op'.kind = "receive" /\ Body.exc # "")
       => /\ raised' # ""
          /\ IF op'.who \in Body.blocked
             THEN raised' = Body.exc /\ AfterBody = <<>>
             ELSE IF NameInUse(Body, op'.who)
             THEN raised' = "ValueDuplicationError" /\ AfterBody = <<>>
             ELSE /\ raised' = Body.exc
                  /\ Delivered(AfterBody, op'.who, Oopsie)]_vars

\* C10 as stated: the apology is delivered whenever something raises (the case
\* of an address string in use as a name left aside)
C10_AsStated ==
    [][(op'.kind = "receive" /\ Body.exc # "" /\ ~NameInUse(Body, op'.who))
       => /\ raised' = Body.exc
          /\ Delivered(AfterBody, op'.who, Oopsie)]_vars

\* C10 witness: a relay text without a colon raised, the sender got the
\* apology and the exception reached run()
C10_Witness ==
    /\ op.kind = "receive"
    /\ raised = "ValueError"
    /\ trace = <<"callback">>
    /\ outbox # <<>>
    /\ outbox[Len(outbox)] = Plain(op.who, Oopsie)

-----------------------------------------------------------------------------
\* the proxy callbacks a slot table holds, as (address, position) pairs
ProxyCallbacks(uc) ==
    {<<a, i>> \in (DOMAIN uc) \X (1..4) :
        i <= Len(uc[a]) /\ uc[a][i].cb.kind = "proxy_callback"}

\* the addresses whose display name carries the relay suffix
Suffixed(names) == {a \in DOMAIN names : endswith(names[a], proxiedSuffix)}

\* a /proxy command (outside the compliance gate) of a sender who is no admin
NonAdminProxy ==
    /\ op'.kind = "receive"
    /\ MsgOfStep.command = Some(cProxy)
    /\ ~StopWord(MsgOfStep.text)
    /\ ~StartWord(MsgOfStep.text)
    /\ op'.who \notin admins

-----------------------------------------------------------------------------
\* the proxy callback that is first in line for address a, if there is one
RelayOf(a) == user_callbacks[a][1].cb

\* a relay session is active for a: the name carries the suffix and the proxy
\* callback is the one the next message of a is handed to
RelayActive(a) ==
    /\ a \in DOMAIN user_names
    /\ endswith(user_names[a], proxiedSuffix)
    /\ a \in DOMAIN user_callbacks
    /\ RelayOf(a).kind = "proxy_callback"

\* a message 'target:message' of an address in an active relay session
RelayStep ==
    /\ op'.kind = "receive"
    /\ RelayActive(op'.who)
    /\ ~StopWord(op'.text)
    /\ ~StartWord(op'.text)
    /\ ~startswith(op'.text, tProxy)
    /\ Len(split1(op'.text, ":")) = 2

\* callback cb is outstanding for address a in the slot table uc
Outstanding(uc, a, cb) ==
    a \in DOMAIN uc /\ \E i \in 1..Len(uc[a]) : uc[a][i].cb = cb

ForcedSends(box) == SelectSeq(box, LAMBDA e : e.force)

\* what a relay step of P owes: the forced send, both callbacks, the reply
RelayStepDone(P, target, message) ==
    /\ ForcedSends(outbox') =
          <<[recipient |-> target, message |-> message, force |-> TRUE]>>
    /\ Outstanding(user_callbacks', target,
                   proxy_response_cb(P, RelayOf(P).name, RelayOf(P).sid))
    /\ Delivered(outbox', P, <<"sent">>)
    /\ Outstanding(user_callbacks', P, RelayOf(P))

\* C12: while a relay session is active for P, a message 'target:message' from
\* P force-sends exactly 'message' to 'target', leaves a response callback
\* outstanding on 'target', replies 'sent' to P, and leaves the proxy callback
\* outstanding on P.
C12_RelayStep ==
    [][RelayStep
       => RelayStepDone(op'.who, split1(op'.text, ":")[1],
                        split1(op'.text, ":")[2])]_vars

-----------------------------------------------------------------------------
\* a non-keyword message of a relayed target: the response callback of a relay
\* is first in line for the sender and the relaying address carries the suffix
TargetStep ==
    /\ op'.kind = "receive"
    /\ op'.who \in DOMAIN user_callbacks
    /\ RelayOf(op'.who).kind = "proxy_response_callback"
    /\ RelayOf(op'.who).who \in DOMAIN user_names
    /\ endswith(user_names[RelayOf(op'.who).who], proxiedSuffix)
    /\ ~StopWord(op'.text)
    /\ ~StartWord(op'.text)

\* C13: while P's display name carries the relay suffix, a message from a
\* relayed target is sent to P as '<target display name>: <text>', is not
\* processed by command or default routing, and the response callback is
\* outstanding on the target again afterwards.
C13_TargetReplyRelayed ==
    [][TargetStep
       => /\ Delivered(outbox', RelayOf(op'.who).who,
                       MsgOfStep.sender_name \o <<": ">> \o op'.text)
          /\ trace' = <<"callback">>
          /\ Outstanding(user_callbacks', op'.who, RelayOf(op'.who))]_vars

-----------------------------------------------------------------------------
\* the toggle command of an address in an active relay session
ToggleStep ==
    /\ op'.kind = "receive"
    /\ RelayActive(op'.who)
    /\ op'.text = tProxy

\* relay mode is left: the name is the one the session started from, the
\* reply is delivered, no proxy callback is left on P
Exited(P) ==
    /\ user_names'[P] = RelayOf(P).name
    /\ ~endswith(user_names'[P], proxiedSuffix)
    /\ Delivered(outbox', P, <<"exited proxy mode">>)
    /\ \A e \in ProxyCallbacks(user_callbacks') : e[1] # P

\* C14: sending the toggle command while in relay mode always exits relay
\* mode: P's display name is restored to its pre-session value, the reply is
\* 'exited proxy mode', and no proxy callback is outstanding on P, so that P's
\* next message goes through normal dispatch.
C14_ToggleExits ==
    [][ToggleStep => Exited(op'.who)]_vars

-----------------------------------------------------------------------------
\* a non-keyword message of a formerly relayed target: the response callback
\* of a relay is first in line and the relaying address has lost the suffix
FormerTargetStep ==
    /\ op'.kind = "receive"
    /\ op'.who \in DOMAIN user_callbacks
    /\ Redispatches(user_callbacks[op'.who][1])
    /\ ~StopWord(op'.text)
    /\ ~StartWord(op'.text)

\* the message as run() builds it for a sender with no outstanding callback
ParsedAfresh ==
    Message([Cur EXCEPT !.user_callbacks = Del(@, op'.who)], op'.who, op'.text, now)

\* C15: after the relay session has ended, the next message from a previously
\* relayed target is not relayed to P; it is processed through the normal
\* receive path (a command handler or the unknown-command reply for a
\* '/'-prefixed text, the default handler otherwise) and the response callback
\* is not outstanding on the target afterwards.
C15_PostSessionDispatch ==
    [][FormerTargetStep
       => /\ ~Delivered(outbox', RelayOf(op'.who).who,
                        MsgOfStep.sender_name \o <<": ">> \o op'.text)
          /\ IF Truthy(ParsedAfresh.command)
             THEN Len(trace') = 2 /\ trace'[2] # "do_default"
             ELSE trace' = <<"callback", "do_default">>
          /\ ~Outstanding(user_callbacks', op'.who, RelayOf(op'.who))]_vars

-----------------------------------------------------------------------------
\* entry e of a slot holds one of the two callbacks of a relay session
IsRelay(e) == e.cb.kind \in {"proxy_callback", "proxy_response_callback"}

\* the session that entry e belongs to is active under the name table names
ActiveIn(names, e) ==
    e.cb.who \in DOMAIN names /\ endswith(names[e.cb.who], proxiedSuffix)

\* a non-keyword message of a sender whose slot holds a relay callback
\* together with a callback that is none
CoexistStep ==
    /\ op'.kind = "receive"
    /\ op'.who \in DOMAIN user_callbacks
    /\ ~StopWord(op'.text)
    /\ ~StartWord(op'.text)
    /\ \E i, j \in 1..Len(user_callbacks[op'.who]) :
          /\ IsRelay(user_callbacks[op'.who][i])
          /\ ~IsRelay(user_callbacks[op'.who][j])

\* C16: a relay session coexists with any independently pending callback: when
\* a message arrives for an address whose slot holds a relay callback and
\* another callback, the other callback is invoked or stays outstanding, and
\* the relay callback, as long as its session is active, is still outstanding
\* for that address afterwards.
C16_RelayCoexists ==
    [][CoexistStep
       => \A i \in 1..Len(user_callbacks[op'.who]) :
             LET e == user_callbacks[op'.who][i]
             IN IF IsRelay(e)
                THEN ActiveIn(user_names, e) /\ ActiveIn(user_names', e)
                        => Outstanding(user_callbacks', op'.who, e.cb)
                ELSE \/ in_list(invokedHist', e.reg)
                     \/ /\ op'.who \in DOMAIN user_callbacks'
                        /\ e.reg \in RegsOf(user_callbacks'[op'.who])]_vars

-----------------------------------------------------------------------------
\* n is a Fibonacci number, by running the recurrence from (a, b)
RECURSIVE FibFrom(_, _, _)
FibFrom(a, b, n) == IF b >= n THEN b = n ELSE FibFrom(b, a + b, n)

IsFibonacci(n) == n >= 1 /\ FibFrom(0, 1, n)

\* a reaction to a message the bot sent to the reactor: it gets recorded
RecordedReaction ==
    /\ op'.kind = "reaction"
    /\ op'.text.author = SERVER_NUMBER
    /\ <<op'.text.ts, op'.who>> \in DOMAIN sent_messages
    /\ op'.who \notin DOMAIN user_callbacks

\* the post a recorded reaction is about, before and after the step
PostIndex == sent_messages[<<op'.text.ts, op'.who>>]

\* the notification that lists every reactor of post so far
NotifText(post) ==
    <<"reactions to '">> \o post.text \o <<"': ">> \o join(", ", notif_items(post.reactions))

\* C17: a reaction to a message the bot sent triggers a notification to the
\* original author exactly when the number of distinct reactors recorded on
\* that message, after recording this reaction, is a Fibonacci number: 1, 2, 3
\* and 5 notify, 4 and 6 do not, and each notification lists all reactors so
\* far (a notification is a send without force, so a blocked author gets none).
C17_FibonacciNotifications ==
    [][RecordedReaction
       => LET post == posts'[PostIndex]
          IN /\ Len(post.reactions) >= 1
             /\ IF IsFibonacci(Len(post.reactions))
                THEN post.sender \notin blocked
                        => outbox' = <<Plain(post.sender, NotifText(post))>>
                ELSE outbox' = <<>>]_vars

\* C17 witness: the fifth reactor of a post has just been recorded and bob, the
\* author, is sent the list of all five
C17_Witness ==
    /\ op.kind = "reaction"
    /\ raised = ""
    /\ \E p \in 1..Len(posts) :
          /\ Len(posts[p].reactions) = 5
          /\ posts[p].reactions[5].name = user_names[op.who]
          /\ outbox = <<Plain(A2, NotifText(posts[p]))>>

-----------------------------------------------------------------------------
\* a reaction handed to receive_reaction that has nothing to correlate with:
\* the target author is not the bot, or nothing was sent to the reactor at the
\* target timestamp
UncorrelatedReaction ==
    /\ op'.kind = "reaction"
    /\ op'.who \notin DOMAIN user_callbacks
    /\ \/ op'.text.author # SERVER_NUMBER
       \/ <<op'.text.ts, op'.who>> \notin DOMAIN sent_messages

\* nothing is sent, no reaction map changes, only the received ledger grows
SilentlyDropped ==
    /\ outbox' = <<>>
    /\ posts' = posts
    /\ sent_messages' = sent_messages
    /\ received_messages' = received_messages \cup {<<now, op'.who>>}
    /\ user_names' = user_names
    /\ followers' = followers
    /\ blocked' = blocked
    /\ user_callbacks' = user_callbacks

\* C18: a reaction whose target author is not the bot, or for which no sent
\* message exists at (target timestamp, reacting address), is silently
\* dropped: receive_reaction returns normally, sends nothing and changes no
\* reaction map; only the received-ledger entry is added.
C18_UncorrelatedDropped ==
    [][UncorrelatedReaction => raised' = "" /\ SilentlyDropped]_vars

-----------------------------------------------------------------------------
\* the names on a reaction map
NamesOn(r) == {r[i].name : i \in 1..Len(r)}

\* the emoji a reaction map holds for a name that is on it
EmojiOf(r, name) == r[CHOOSE i \in 1..Len(r) : r[i].name = name].emoji

\* C19: the reaction map of a sent message holds one emoji per reactor display
\* name; the last reaction of a name replaces its earlier one without
\* increasing the count, a new name adds one entry, the entries of the other
\* names stay; and whatever a reaction sends is addressed to the author of the
\* original message, so a reactor who is not the author is sent nothing.
C19_OneEmojiPerName ==
    [][RecordedReaction
       => LET r == posts[PostIndex].reactions
              after == posts'[PostIndex].reactions
              name == user_names[op'.who]
          IN /\ Cardinality(NamesOn(after)) = Len(after)
             /\ NamesOn(after) = NamesOn(r) \cup {name}
             /\ Len(after) = IF name \in NamesOn(r) THEN Len(r) ELSE Len(r) + 1
             /\ EmojiOf(after, name) = op'.text.emoji
             /\ \A n \in NamesOn(r) \ {name} : EmojiOf(after, n) = EmojiOf(r, n)
             /\ \A q \in 1..Len(posts) : q # PostIndex => posts'[q] = posts[q]
             /\ \A i \in 1..Len(outbox') :
                   /\ outbox'[i].recipient = posts[PostIndex].sender
                   /\ op'.who # posts[PostIndex].sender
                         => outbox'[i].recipient # op'.who]_vars

\* C19 witness: alice reacted to bob's post before the next fan did and now
\* frowns at it; the map still has two entries, hers says frown and keeps its
\* place, and the list goes to bob
C19_Witness ==
    /\ op.kind = "reaction"
    /\ op.who = A1
    /\ op.text.emoji = frown
    /\ posts # <<>>
    /\ posts[Len(posts)].reactions =
          <<[name |-> alice, emoji |-> frown], [name |-> <<"u", "4">>, emoji |-> smile]>>
    /\ outbox = <<Plain(A2, NotifText(posts[Len(posts)]))>>

-----------------------------------------------------------------------------
\* the address takes_number resolves the first argument of msg to: a display
\* name first, a number otherwise
Resolves(msg) ==
    /\ msg.arg1 # None
    /\ in_inverse(Cur, msg.arg1[1]) \/ is_valid_number(msg.arg1[1])

TargetOf(msg) ==
    IF in_inverse(Cur, msg.arg1[1]) THEN inverse(Cur, msg.arg1[1])
    ELSE E164(msg.arg1[1])

\* a /follow of a target the sender is following already
FollowAgain ==
    /\ op'.kind = "receive"
    /\ MsgOfStep.command = Some(cFollow)
    /\ ~StopWord(MsgOfStep.text)
    /\ ~StartWord(MsgOfStep.text)
    /\ Resolves(MsgOfStep)
    /\ in_list(followers_of(followers, TargetOf(MsgOfStep)), op'.who)

\* C20: follow is idempotent: a /follow of a target the sender follows already
\* replies 'you're already following ...' (a reply, so delivered unless the
\* sender is blocked), sends no second 'has followed you' notice to the target
\* or anything else, and leaves the target's follower list and every other
\* follower list unchanged.
C20_FollowIdempotent ==
    [][FollowAgain
       => /\ trace' = <<"do_follow">>
          /\ raised' = ""
          /\ followers' = followers
          /\ Len(SelectSeq(followers_of(followers', TargetOf(MsgOfStep)),
                           LAMBDA a : a = op'.who)) = 1
          /\ \A i \in 1..Len(outbox') :
                outbox'[i].message # MsgOfStep.sender_name \o <<" has followed you">>
          /\ outbox' = IF op'.who \in blocked THEN <<>>
                       ELSE <<Plain(op'.who, <<"you're already following ">>
                                                 \o Fmt(MsgOfStep.arg1))>>]_vars

\* C20 witness: alice has asked to follow +3 a second time; +3's follower list
\* is still alice alone and alice is told so
C20_Witness ==
    /\ op.kind = "receive"
    /\ op.who = A1
    /\ op.text = tFollow3
    /\ followers_of(followers, A3) = <<A1>>
    /\ outbox = <<Plain(A1, <<"you're already following ">> \o Fmt(Some(<<"+", "3">>)))>>

-----------------------------------------------------------------------------
\* list l holds no element twice
NoDuplicates(l) == \A i, j \in 1..Len(l) : l[i] = l[j] => i = j

\* C21: after any sequence of operations, every follower list contains each
\* address at most once.
C21_FollowerListsAreSets ==
    \A i \in 1..Len(followers) : NoDuplicates(followers[i].v)

-----------------------------------------------------------------------------
\* the follower graph: the pairs (followed, follower) of the follower lists
Edges(f) == {<<f[i].k, f[i].v[j]>> : <<i, j>> \in
                {p \in (1..Len(f)) \X (1..4) : p[2] <= Len(f[p[1]].v)}}

\* an /unfollow of a target the sender does not follow
UnfollowNothing ==
    /\ MsgOfStep.command = Some(cUnfollow)
    /\ Resolves(MsgOfStep)
    /\ ~in_list(followers_of(followers, TargetOf(MsgOfStep)), op'.who)

\* a /softblock of a target that does not follow the sender
SoftblockNothing ==
    /\ MsgOfStep.command = Some(cSoftblock)
    /\ Resolves(MsgOfStep)
    /\ ~in_list(followers_of(followers, op'.who), TargetOf(MsgOfStep))

\* the reply the two refusals give
NotFollowingReply ==
    IF MsgOfStep.command = Some(cUnfollow)
    THEN <<"you aren't following ">> \o Fmt(MsgOfStep.arg1)
    ELSE Fmt(MsgOfStep.arg1) \o <<" isn't following you">>

-----------------------------------------------------------------------------
\* C23: the address-to-display-name mapping is a bijection in every reachable
\* state: no two addresses share a display name, across /name, onboarding
\* defaults and the relay suffix tagging and stripping of /proxy.
C23_NamesBijective ==
    \A a, b \in DOMAIN user_names : user_names[a] = user_names[b] => a = b

\* C23 witness: alice is tagged as relaying, bob has taken the name she had
\* before, +3 has been onboarded, and alice's try to leave proxy mode under
\* her old name has just been refused by the mapping
C23_Witness ==
    /\ endswith(user_names[A1], proxiedSuffix)
    /\ user_names[A2] = alice
    /\ A3 \in DOMAIN user_names
    /\ op.who = A1
    /\ op.text = tProxy
    /\ raised = "ValueDuplicationError"

-----------------------------------------------------------------------------
\* a message that hands a name to do_name: the /name command with an
\* argument, or the answer to the name prompt of onboarding
SetsName ==
    /\ op'.kind = "receive"
    /\ ~StopWord(op'.text)
    /\ ~StartWord(op'.text)
    /\ MsgOfStep.arg1 # None
    /\ IF op'.who \in DOMAIN user_callbacks
       THEN slot_is(Cur, op'.who, do_name_cb)
       ELSE MsgOfStep.command = Some(cName)

\* the name do_name is handed
NewName == MsgOfStep.arg1[1]

\* the name belongs to an address other than the sender
TakenByAnother ==
    \E a \in DOMAIN user_names : a # op'.who /\ user_names[a] = NewName

NameRefused ==
    /\ user_names' = user_names
    /\ Delivered(outbox', op'.who,
                 <<"'">> \o NewName
                     \o <<"' is already taken, use /name to set a different name">>)

NameAccepted ==
    /\ op'.who \in DOMAIN user_names'
    /\ user_names'[op'.who] = NewName
    /\ Delivered(outbox', op'.who, <<"other users will now see you as ">> \o NewName)

\* C24: setting a name fails with the 'already taken' reply, leaving the name
\* mapping unchanged, if and only if the name already maps to a different
\* address or ends with the reserved relay suffix; in every other case
\* (including a name already bound to the same address) it succeeds and the
\* sender's display name becomes that name.
C24_NameTakenIff ==
    [][SetsName /\ op'.who \notin blocked
       => IF TakenByAnother \/ endswith(NewName, proxiedSuffix)
          THEN NameRefused
          ELSE NameAccepted]_vars

-----------------------------------------------------------------------------
\* no address leaves the address book
NamesKept == DOMAIN user_names \subseteq DOMAIN user_names'

\* an address that enters the address book enters under its own address,
\* unless it is the sender naming itself in the same operation
DefaultNames ==
    \A a \in DOMAIN user_names' \ DOMAIN user_names :
        user_names'[a] = a \/ a = op'.who

\* C25 (as stated): after every operation, the address whose message receive
\* has handled and every address the bot has written to have a display name,
\* and no operation removes an address from the name mapping.
C25_AsStated ==
    [][/\ NamesKept
       /\ op'.kind = "receive" /\ raised' = "" => op'.who \in DOMAIN user_names'
       /\ \A i \in 1..Len(outbox') : outbox'[i].recipient \in DOMAIN user_names']_vars

\* C25: every address the bot has written to without force has a display name
\* from then on, its own address by default, and no operation removes an
\* address from the name mapping. A forced send, which the proxy relay
\* issues, names nobody, and neither does handling a message that gets no
\* reply, so a relayed target can be written to and be heard from without
\* having a name.
C25_NamedOnceWrittenTo ==
    [][/\ NamesKept
       /\ DefaultNames
       /\ \A i \in 1..Len(outbox') :
             ~outbox'[i].force => outbox'[i].recipient \in DOMAIN user_names']_vars

\* C25 witness: a message of the never-seen +3 fell through to do_default; the
\* reply to it put +3 in the address book under its own address
C25_Witness ==
    /\ op.kind = "receive"
    /\ op.who = A3
    /\ <<now, A3>> \in received_messages
    /\ trace = <<"callback", "do_default">>
    /\ Delivered(outbox, A3, Welcome)
    /\ user_names[A3] = A3

-----------------------------------------------------------------------------
\* address a follows address b: a is on b's follower list
Follows(a, b) == in_list(followers_of(followers, b), a)

\* the operation is a plain message t of address a, which is called name,
\* has no callback outstanding, and the message is handled without raising
Posts(a, name, t) ==
    /\ op'.kind = "receive"
    /\ op'.who = a
    /\ op'.text = t
    /\ raised' = ""
    /\ a \notin DOMAIN user_callbacks
    /\ a \in DOMAIN user_names
    /\ user_names[a] = name

\* C26 (as stated): with +1 named alice and +2 named bob, once +1 follows +2 a
\* post "hello" of +1 is delivered to +2 with alice's name in front, and a
\* post of +2 is delivered to +1 with bob's name in front.
C26_AsStated ==
    [][/\ Posts(A1, alice, tHello) /\ Follows(A1, A2) /\ A2 \notin blocked
          => Delivered(outbox', A2, alice \o <<": ">> \o tHello)
       /\ Posts(A2, bob, tHiAl) /\ Follows(A1, A2) /\ A1 \notin blocked
          => Delivered(outbox', A1, bob \o <<": ">> \o tHiAl)]_vars

\* C26: with +1 named alice and +2 named bob, a post "hello" of +1 is
\* delivered to +2 with alice's name in front exactly when +2 follows +1 and
\* has not blocked the bot, and a post of +2 is delivered to +1 with bob's
\* name in front exactly when +1 follows +2 and has not blocked the bot: the
\* exchange of the scenario takes place once each follows the other.
C26_Scenario ==
    [][/\ Posts(A1, alice, tHello)
          => (Delivered(outbox', A2, alice \o <<": ">> \o tHello)
                <=> Follows(A2, A1) /\ A2 \notin blocked)
       /\ Posts(A2, bob, tHiAl)
          => (Delivered(outbox', A1, bob \o <<": ">> \o tHiAl)
                <=> Follows(A1, A2) /\ A1 \notin blocked)]_vars

\* C26 witness: +1's "hello" was posted to its followers, and then +2's
\* answer reaches +1 under bob's name
C26_Witness ==
    /\ Len(posts) = 2
    /\ posts[1].sender = A1 /\ posts[1].text = tHello
    /\ posts[2].sender = A2 /\ posts[2].text = tHiAl
    /\ Follows(A2, A1)
    /\ op.kind = "receive" /\ op.who = A2 /\ op.text = tHiAl
    /\ outbox = <<Plain(A1, bob \o <<": ">> \o tHiAl)>>

-----------------------------------------------------------------------------
\* the operation is a message of a known sender with no callback outstanding
\* that is neither a command nor one of the keywords
PlainPost ==
    /\ op'.kind = "receive"
    /\ op'.who \in DOMAIN user_names
    /\ op'.who \notin DOMAIN user_callbacks
    /\ MsgOfStep.command = None
    /\ ~StopWord(op'.text)
    /\ ~StartWord(op'.text)

\* the number of messages of the operation written to address a
CopiesTo(a) == Len(OutboxTo(outbox', a))

\* C27: a plain message of a known sender with no callback outstanding is
\* handled without raising, every message written is the text with the
\* sender's display name in front, each follower of the sender that has not
\* blocked the bot is written to exactly once and nobody else is written to,
\* the sender included unless it follows itself.
C27_PlainBroadcast ==
    [][PlainPost =>
         /\ raised' = ""
         /\ \A i \in 1..Len(outbox') :
               /\ outbox'[i].message = user_names[op'.who] \o <<": ">> \o op'.text
               /\ ~outbox'[i].force
         /\ \A a \in {A1, A2, A3} :
               CopiesTo(a) = IF Follows(a, op'.who) /\ a \notin blocked THEN 1 ELSE 0]_vars

-----------------------------------------------------------------------------
\* the operation is a message whose command name names no handler
NoHandler ==
    /\ op'.kind = "receive"
    /\ MsgOfStep.command # None
    /\ MsgOfStep.command[1] \notin HandlerNames

\* C28: a message whose command name has no handler is handled without
\* raising; the sender is sent the reply "no such command '<name>'" (delivered
\* unless the sender is blocked) and, for a sender the bot knows, nothing
\* else is written; the blocklist and the follower lists are unchanged, every
\* address keeps its name and its callback state (a never-seen sender is
\* given its default name and the name prompt by the reply's onboarding, like
\* on any first reply).
C28_UnknownCommand ==
    [][NoHandler =>
         /\ raised' = ""
         /\ blocked' = blocked
         /\ Edges(followers') = Edges(followers)
         /\ \A a \in DOMAIN user_names :
               a \in DOMAIN user_names' /\ user_names'[a] = user_names[a]
         /\ DOMAIN user_names' \subseteq DOMAIN user_names \cup {op'.who}
         /\ \A a \in DOMAIN user_callbacks' \cup DOMAIN user_callbacks :
               a # op'.who => /\ a \in DOMAIN user_callbacks
                              /\ a \in DOMAIN user_callbacks'
                              /\ user_callbacks'[a] = user_callbacks[a]
         /\ op'.who \notin blocked
               => Delivered(outbox', op'.who, NoSuchCommand(MsgOfStep.command[1]))
         /\ op'.who \in DOMAIN user_names
               => /\ user_names' = user_names
                  /\ user_callbacks' = user_callbacks
                  /\ outbox' = IF op'.who \in blocked THEN <<>>
                               ELSE <<Plain(op'.who,
                                            NoSuchCommand(MsgOfStep.command[1]))>>]_vars

-----------------------------------------------------------------------------
\* the operation is a message with one of the commands takes_number wraps for
\* every user
TargetCommand ==
    /\ op'.kind = "receive"
    /\ MsgOfStep.command \in {Some(cFollow), Some(cInvite), Some(cUnfollow),
                              Some(cSoftblock)}

\* the follower edges the operation added or removed
EdgesChanged ==
    (Edges(followers') \ Edges(followers)) \cup (Edges(followers) \ Edges(followers'))

\* the callback state of every address but the sender's is as it was
OthersCallbacksKept ==
    \A a \in (DOMAIN user_callbacks' \cup DOMAIN user_callbacks) \ {op'.who} :
        /\ a \in DOMAIN user_callbacks
        /\ a \in DOMAIN user_callbacks'
        /\ user_callbacks'[a] = user_callbacks[a]

\* C29: a message with the command /follow, /invite, /unfollow or /softblock
\* acts on the address its first argument resolves to, the address of the
\* user with that display name if there is one and the number it parses to
\* otherwise: only the sender and that address are written to and only edges
\* between the two change. When the argument resolves to nothing the sender
\* is sent the "doesn't look a valid number or user" reply (delivered unless
\* the sender is blocked or its onboarding fails), and the follower lists,
\* the blocklist, the names and the callbacks are left as they were (a
\* never-seen sender is onboarded by the reply, like on any first reply).
C29_TargetResolution ==
    [][TargetCommand =>
         IF Resolves(MsgOfStep)
         THEN /\ \A i \in 1..Len(outbox') :
                    outbox'[i].recipient \in {op'.who, TargetOf(MsgOfStep)}
              /\ EdgesChanged \subseteq {<<TargetOf(MsgOfStep), op'.who>>,
                                         <<op'.who, TargetOf(MsgOfStep)>>}
              /\ ~Delivered(outbox', op'.who, NotANumber(MsgOfStep))
              /\ blocked' = blocked
         ELSE /\ blocked' = blocked
              /\ EdgesChanged = {}
              /\ OthersCallbacksKept
              /\ \A a \in DOMAIN user_names :
                    a \in DOMAIN user_names' /\ user_names'[a] = user_names[a]
              /\ DOMAIN user_names' \subseteq DOMAIN user_names \cup {op'.who}
              /\ op'.who \notin blocked /\ ~NameInUse(Cur, op'.who)
                    => Delivered(outbox', op'.who, NotANumber(MsgOfStep))
              /\ op'.who \in DOMAIN user_names
                    => /\ user_names' = user_names
                       /\ user_callbacks' = user_callbacks
                       /\ outbox' = IF op'.who \in blocked THEN <<>>
                                    ELSE <<Plain(op'.who, NotANumber(MsgOfStep))>>]_vars

-----------------------------------------------------------------------------
\* the compliance gate handled the message of the operation
GateFired == \E i \in 1..Len(trace') : trace'[i] \in {"stop", "start"}

\* C30: the compliance gate handles a message only when its whole text is,
\* in any case of letters, one of stop, block, start and unblock; a message
\* that begins with the command marker is not handled by the gate and leaves
\* the blocklist as it was.
C30_GateOnWholeText ==
    [][op'.kind = "receive" =>
         /\ GateFired => lower(op'.text) \in {stop, block, start, unblock}
         /\ startswith(op'.text, <<"/">>) => ~GateFired /\ blocked' = blocked]_vars

-----------------------------------------------------------------------------
\* the operation neither wrote to the transport nor raised, and the names,
\* the follower lists, the blocklist and the callbacks are as they were
NothingDone ==
    /\ outbox' = <<>>
    /\ raised' = ""
    /\ user_names' = user_names
    /\ followers' = followers
    /\ blocked' = blocked
    /\ user_callbacks' = user_callbacks
    /\ nreg' = nreg

\* C31: a call of send whose text is empty, or that is not forced and whose
\* recipient is blocked, writes nothing to the transport and changes no
\* state: nobody is onboarded or named and no callback is registered.
C31_SendNoOp ==
    [][/\ op'.kind = "call"
       /\ op'.text = <<>> \/ (~op'.force /\ op'.who \in blocked)
       => NothingDone]_vars

-----------------------------------------------------------------------------
\* C32: a forced call of send writes its message to the transport for the
\* recipient, blocked or not, known or not, and does nothing else: no welcome
\* and no name prompt are written, nothing is raised, and the names, the
\* callbacks, the blocklist and the follower lists are as they were.
C32_ForcedSend ==
    [][op'.kind = "call" /\ op'.force =>
         /\ outbox' = <<[recipient |-> op'.who, message |-> op'.text, force |-> TRUE]>>
         /\ raised' = ""
         /\ user_names' = user_names
         /\ user_callbacks' = user_callbacks
         /\ nreg' = nreg
         /\ blocked' = blocked
         /\ followers' = followers]_vars

\* C32 witness: while +2 is blocked, a forced "hi" was written for the
\* never-seen +3, which has no name and no callback afterwards
C32_Witness ==
    /\ op.kind = "call"
    /\ op.force
    /\ op.who = A3
    /\ op.text = tHi
    /\ A2 \in blocked
    /\ A3 \notin DOMAIN user_names
    /\ A3 \notin DOMAIN user_callbacks
    /\ outbox = <<[recipient |-> A3, message |-> tHi, force |-> TRUE]>>

\* the blocked case: a forced "hi" was written for +2, which is on the
\* blocklist
ForcedToBlocked ==
    /\ op.kind = "call"
    /\ op.force
    /\ op.who = A2
    /\ A2 \in blocked
    /\ outbox = <<[recipient |-> A2, message |-> tHi, force |-> TRUE]>>

-----------------------------------------------------------------------------
\* the positions of the welcome notice among the lines written for address a
WelcomesTo(box, a) ==
    {i \in 1..Len(OutboxTo(box, a)) : OutboxTo(box, a)[i].message = Welcome}

\* C33: an operation writes the welcome notice for an address at most once,
\* only as the first line for an address that had no name before and has one
\* afterwards, and never forced; and no operation removes a name. So over any
\* sequence of operations an address is welcomed at most once: the sends
\* inside onboarding, and every later send, find the address known.
C33_OnboardingOnce ==
    [][/\ NamesKept
       /\ \A a \in {A1, A2, A3} :
             WelcomesTo(outbox', a) # {}
             => /\ WelcomesTo(outbox', a) = {1}
                /\ ~OutboxTo(outbox', a)[1].force
                /\ a \notin DOMAIN user_names
                /\ a \in DOMAIN user_names']_vars

\* C33 witness: +3 was onboarded earlier, its name prompt is still
\* outstanding, and a later send to it wrote the message alone
C33_Witness ==
    /\ op.kind = "call"
    /\ op.who = A3
    /\ ~op.force
    /\ A3 \in DOMAIN user_names
    /\ user_names[A3] = A3
    /\ A3 \in DOMAIN user_callbacks
    /\ outbox = <<Plain(A3, tHi)>>

-----------------------------------------------------------------------------
\* the operation is a message that is no keyword, from a sender whose
\* outstanding callback is, or begins with, the answer to an invitation
InviteReply ==
    /\ op'.kind = "receive"
    /\ op'.who \in DOMAIN user_callbacks
    /\ user_callbacks[op'.who][1].cb.kind = "response_callback"
    /\ ~StopWord(op'.text)
    /\ ~StartWord(op'.text)

\* the inviter and its name as the invitation recorded them
Inviter == user_callbacks[op'.who][1].cb.who

InviterName == user_callbacks[op'.who][1].cb.name

\* the reply the answer to an invitation gets
InviteAnswer ==
    IF contains(yes, lower(op'.text)) THEN <<"followed ">> \o InviterName
    ELSE IF contains(no, lower(op'.text)) THEN <<"didn't follow ">> \o InviterName
    ELSE <<"that didn't look like a response. not following ">> \o InviterName
            \o <<" by default. if you do want to follow them, text ">>
            \o Backquote \o <<"/follow ">> \o Inviter \o Backquote
            \o <<" or ">> \o Backquote \o <<"/follow ">> \o InviterName \o Backquote

\* C34: a message with the command /invite changes no follower list. The
\* answer to an invitation puts the invitee on the inviter's follower list
\* exactly when its text in lower case is a substring of "yes" (the empty
\* text included); any other answer leaves every follower list as it was. The
\* answer is replied to with "followed ...", with "didn't follow ..." when it
\* is a substring of "no", and with the "didn't look like a response" text
\* otherwise (delivered unless the invitee is blocked).
C34_InviteAnswers ==
    [][/\ op'.kind = "receive" /\ MsgOfStep.command = Some(cInvite)
          => Edges(followers') = Edges(followers)
       /\ InviteReply
          => /\ raised' = ""
             /\ followers_of(followers', Inviter)
                   = IF contains(yes, lower(op'.text))
                     THEN Append(followers_of(followers, Inviter), op'.who)
                     ELSE followers_of(followers, Inviter)
             /\ EdgesChanged \subseteq {<<Inviter, op'.who>>}
             /\ op'.who \notin blocked
                   => Delivered(outbox', op'.who, InviteAnswer)]_vars

\* C34 witness: bob answered alice's invitation with "ES" and is on her
\* follower list
C34_Witness ==
    /\ op.kind = "receive"
    /\ op.who = A2
    /\ op.text = tES
    /\ Follows(A2, A1)
    /\ Delivered(outbox, A2, <<"followed ">> \o alice)

-----------------------------------------------------------------------------
\* C35: whenever the display name of an address ends with the relay suffix,
\* a proxy callback is outstanding for that address, alone or inside a
\* composite, so that the address can leave the session with the toggle
\* command; also after a message of the address that is not of the form
\* target:message.
C35_SessionHasCallback ==
    \A a \in Suffixed(user_names) :
        \E i \in 1..4 : <<a, i>> \in ProxyCallbacks(user_callbacks)

-----------------------------------------------------------------------------
\* the operation is a message the compliance gate handles, and receive returns
GateStep ==
    /\ op'.kind = "receive"
    /\ StopWord(MsgOfStep.text) \/ StartWord(MsgOfStep.text)
    /\ raised' = ""

-----------------------------------------------------------------------------
AuthorNotified ==
    /\ op.kind = "reaction"
    /\ op.who = A1
    /\ raised = ""
    /\ A2 \in DOMAIN user_callbacks
    /\ OutboxTo(outbox, A2) # <<>>

-----------------------------------------------------------------------------
\* the operation is the command c with a target that resolves, handled
\* without raising and answered with the word of success and the argument
Succeeded(c, word) ==
    /\ op'.kind = "receive"
    /\ raised' = ""
    /\ MsgOfStep.command = Some(c)
    /\ Resolves(MsgOfStep)
    /\ Delivered(outbox', op'.who, word \o Fmt(MsgOfStep.arg1))

\* C38: after an /unfollow that is answered "unfollowed ..." the sender is not
\* on the target's follower list, and after a /softblock that is answered
\* "softblocked ..." the target is not on the sender's follower list, so that
\* posts of the one no longer go to the other.
C38_RemovedFromList ==
    [][/\ Succeeded(cUnfollow, <<"unfollowed ">>)
          => ~in_list(followers_of(followers', TargetOf(MsgOfStep)), op'.who)
       /\ Succeeded(cSoftblock, <<"softblocked ">>)
          => ~in_list(followers_of(followers', op'.who), TargetOf(MsgOfStep))]_vars

====
